---- MODULE Spec2Model ----
(***************************************************************************)
(* Streaming chat consumer and watch-target table of backtestbaby's        *)
(* frontend:                                                               *)
(*   - the read loop of streamChat (line splitting over transport chunks), *)
(*   - the animated transcript (appendAnimatedChunk, its interval callback *)
(*     and finalizeStreamController),                                      *)
(*   - the send cycle of handleSendMessage,                                *)
(*   - the handlers of SignalsTable and the sidebar's target deletion,     *)
(*   - the event view of a watch target (SignalEventDetail.fetchEvents),   *)
(*   - the conversations of the sidebar: selection, fetch and deletion.    *)
(* ResearchChat (research-chat.tsx) and StrategyChat                       *)
(* (signal-event-detail.tsx) share this logic line for line; StrategyChat  *)
(* adds the tool-event side state, which is modelled too.                  *)
(*                                                                         *)
(* Specifications:                                                         *)
(*   SpecDecode  the read loop over every body and every chunking          *)
(*   SpecAnim    append / interval callback / finalize on two ids          *)
(*   Spec        a session with several handleSendMessage calls, which may *)
(*               overlap; their streams carry content lines                *)
(*   SpecStream  one call whose stream carries every kind of line          *)
(*   SpecTeardown  the same, with the teardown of the component            *)
(*   SpecTable   SignalsTable: pause / resume / stop clicks that may       *)
(*               overlap, against the authority that keeps the targets     *)
(*   SpecTableSeq  the same with one command at a time                     *)
(*   SpecDelete  deletion of a target in the table and in the sidebar      *)
(*   SpecRoute   calls one after the other whose streams carry content     *)
(*               lines and tool events of two kinds each                   *)
(*   SpecTableConfirm  SpecTableSeq with the confirm dialog of the Stop    *)
(*               button answered with yes or with no                       *)
(*   SpecEvents  the event view: opened, switched to another target,       *)
(*               closed, while the monitor records events                  *)
(*   SpecRequests  the chat or the table, every request able to fail       *)
(*   SpecAnimDrain  appends and interval callbacks without finalize, an    *)
(*               interval that is set firing again and again               *)
(*   SpecConversations  the sidebar's conversations: selected, fetched     *)
(*               and deleted, every response arriving when it arrives      *)
(*   SpecSelect  one handleSendMessage call and clicks on the              *)
(*               conversations of the sidebar at any moment                *)
(*                                                                         *)
(* Text is a sequence of one-character strings; a fixed notice is one      *)
(* element. A handler runs to its next await in one step: the event loop   *)
(* is single threaded and microtasks run before the next event.            *)
(* Left out: message times, the strategy details StrategyChat loads next   *)
(* to a conversation, and the input field (a call is given the text the    *)
(* field holds). The conversation list of the sidebar is kept by the       *)
(* specifications about it; the send cycle does not read it.               *)
(***************************************************************************)
EXTENDS Integers, Sequences, FiniteSets, TLC

\* ------------------------------------------------------------------ bounds
\* longest stream body, in bytes, of the read-loop specification
MaxBody == 4
\* number of appendAnimatedChunk calls per correlation id (SpecAnim)
MaxAppends == 3
\* number of handleSendMessage calls of one session (Spec)
MaxSends == 2
\* number of lines of one stream when several calls share a session (Spec)
MaxSessionLines == 1
\* number of lines of the stream of a single call (SpecStream)
MaxLines == 3
\* number of pause / resume / stop clicks in the signals table, one at a
\* time (SpecTableSeq)
MaxCommands == 3
\* number of those clicks when they may overlap (SpecTable)
MaxOverlapping == 2
\* number of confirmed deletions of watch targets (SpecDelete)
MaxDeletes == 2
\* lines of one stream when calls follow one another (SpecRoute)
MaxRouteLines == 2
\* fetchEvents calls: times a watch target is chosen for the event view (SpecEvents)
MaxViews == 2
\* events the authority holds, over all watch targets (SpecEvents)
MaxEvents == 3
\* handler calls of the table when every request may fail (SpecRequests)
MaxRequests == 2

\* ------------------------------------------------------- program constants
STREAM_CHARS_PER_TICK == 5

\* a value for "no such thing" (null / undefined / missing map entry)
None == "null"

\* -------------------------------------------------------------- text tools
\* String.prototype.trim strips these from both ends.
WhiteSpace == {" ", "\n", "\r", "\t"}

RECURSIVE TrimStart(_)
TrimStart(s) ==
  IF s # <<>> /\ Head(s) \in WhiteSpace THEN TrimStart(Tail(s)) ELSE s

RECURSIVE TrimEnd(_)
TrimEnd(s) ==
  IF s # <<>> /\ s[Len(s)] \in WhiteSpace THEN TrimEnd(SubSeq(s, 1, Len(s) - 1)) ELSE s

\* part.trim()
Trim(s) == TrimEnd(TrimStart(s))

\* buffer.split("\n"): always at least one part; the last part is what
\* follows the last newline.
RECURSIVE Split(_)
Split(s) ==
  IF \E i \in 1..Len(s) : s[i] = "\n"
  THEN LET i == CHOOSE j \in 1..Len(s) : s[j] = "\n" /\ \A k \in 1..(j - 1) : s[k] # "\n"
       IN  <<SubSeq(s, 1, i - 1)>> \o Split(SubSeq(s, i + 1, Len(s)))
  ELSE <<s>>

\* s.slice(0, n) and s.slice(n)
SliceTo(s, n) == SubSeq(s, 1, IF n < Len(s) THEN n ELSE Len(s))
SliceFrom(s, n) == SubSeq(s, (IF n < Len(s) THEN n ELSE Len(s)) + 1, Len(s))

\* ----------------------------------------------------- TextDecoder("utf-8")
\* Bytes are one-character strings. "L" is the lead byte and "T" the trail
\* byte of a two-byte character; every other byte is a one-byte character.
\* decoder.decode(value, {stream: true}) keeps a lead byte that ends a chunk
\* until the next chunk; a malformed sequence decodes to U+FFFD.
Replacement == "U+FFFD"
TwoByteChar == "LT"

RECURSIVE DecodeBytes(_, _, _)
DecodeBytes(pending, bytes, out) ==
  IF bytes = <<>> THEN [pending |-> pending, out |-> out]
  ELSE LET b == Head(bytes) IN
       IF pending
       THEN IF b = "T"
            THEN DecodeBytes(FALSE, Tail(bytes), Append(out, TwoByteChar))
            ELSE DecodeBytes(FALSE, bytes, Append(out, Replacement))
       ELSE IF b = "L" THEN DecodeBytes(TRUE, Tail(bytes), out)
            ELSE IF b = "T" THEN DecodeBytes(FALSE, Tail(bytes), Append(out, Replacement))
            ELSE DecodeBytes(FALSE, Tail(bytes), Append(out, b))

decode(pending, value) == DecodeBytes(pending, value, <<>>)

\* ------------------------------------------------ streamChat: the read loop
\* One iteration of the while loop for a chunk that was read:
\*   buffer += decoder.decode(value, { stream: true })
\*   const parts = buffer.split("\n")
\*   buffer = parts.pop() || ""
\*   parts.filter((part) => part.trim().length > 0).forEach((part) => processLine(part.trim()))
\* The result names the new buffer, the decoder state and the lines handed to
\* processLine, in order.
NonBlank(part) == Len(Trim(part)) > 0

TrimAll(parts) == [i \in 1..Len(parts) |-> Trim(parts[i])]

ReadChunkDropCarry(buffer, pending, value) ==
  LET d == decode(pending, value)
      parts == Split(buffer \o d.out)
  IN  [buffer |-> <<>>,
       pending |-> d.pending,
       lines |-> TrimAll(SelectSeq(parts, NonBlank))]

ReadChunk(buffer, pending, value) ==
  LET d == decode(pending, value)
      parts == Split(buffer \o d.out)
  IN  [buffer |-> parts[Len(parts)],
       pending |-> d.pending,
       lines |-> TrimAll(SelectSeq(SubSeq(parts, 1, Len(parts) - 1), NonBlank))]

\* After the loop: if (buffer.trim()) processLine(buffer.trim())
FlushBuffer(buffer) == IF Trim(buffer) # <<>> THEN <<Trim(buffer)>> ELSE <<>>

\* The lines processLine receives when the whole body arrives as one chunk
\* (no chunk at all when the body is empty).
WholeBodyLines(b) ==
  IF b = <<>> THEN FlushBuffer(<<>>)
  ELSE LET r == ReadChunk(<<>>, FALSE, b) IN r.lines \o FlushBuffer(r.buffer)

\* ------------------------------------------------------ message list tools
\* A message is [role, content, clientId]; clientId is None on every message
\* that is not a streaming placeholder. (The timestamp plays no part in the
\* logic and is left out.)
Message(role, content, clientId) ==
  [role |-> role, content |-> content, clientId |-> clientId]

\* an update that does not look at the clientId of a placeholder
AppendContentToAll(msgs, clientId, text) ==
  [i \in 1..Len(msgs) |->
     IF msgs[i].clientId # None
     THEN [msgs[i] EXCEPT !.content = msgs[i].content \o text]
     ELSE msgs[i]]

\* prev.map((msg) => (msg.clientId === clientId ? { ...msg, content: msg.content + text } : msg))
AppendContent(msgs, clientId, text) ==
  [i \in 1..Len(msgs) |->
     IF msgs[i].clientId = clientId
     THEN [msgs[i] EXCEPT !.content = msgs[i].content \o text]
     ELSE msgs[i]]

\* prev.map((msg) => (msg.clientId === clientId ? { ...msg, content: text } : msg))
SetContent(msgs, clientId, text) ==
  [i \in 1..Len(msgs) |->
     IF msgs[i].clientId = clientId
     THEN [msgs[i] EXCEPT !.content = text]
     ELSE msgs[i]]

HasClientId(msgs, clientId) == \E i \in 1..Len(msgs) : msgs[i].clientId = clientId

\* the content of the message that carries clientId
ContentOf(msgs, clientId) ==
  msgs[CHOOSE i \in 1..Len(msgs) : msgs[i].clientId = clientId].content

\* ---------------------------------------------------- animated transcript
\* streamControllers.current is a map from clientId to { buffer, timer }: a
\* function whose domain holds the clientIds that have an entry. timer is
\* TRUE while an interval is set.
Put(map, key, value) ==
  [k \in DOMAIN map \cup {key} |-> IF k = key THEN value ELSE map[k]]

Delete(map, key) == [k \in DOMAIN map \ {key} |-> map[k]]

\* an append that replaces what the buffer holds
appendAnimatedChunkReplaces(ctls, clientId, chunk) ==
  IF chunk = <<>> THEN ctls
  ELSE Put(ctls, clientId, [buffer |-> chunk, timer |-> TRUE])

appendAnimatedChunk(ctls, clientId, chunk) ==
  IF chunk = <<>> THEN ctls
  ELSE LET controller == IF clientId \in DOMAIN ctls
                         THEN ctls[clientId]
                         ELSE [buffer |-> <<>>, timer |-> FALSE]
       IN  Put(ctls, clientId, [buffer |-> controller.buffer \o chunk, timer |-> TRUE])

\* the number of setInterval calls appendAnimatedChunk makes
IntervalsSetAlways(ctls, clientId, chunk) == IF chunk = <<>> THEN 0 ELSE 1

IntervalsSet(ctls, clientId, chunk) ==
  IF chunk = <<>> THEN 0
  ELSE IF clientId \in DOMAIN ctls /\ ctls[clientId].timer THEN 0
  ELSE 1

\* a callback that stops its interval after one slice, text left or not
intervalCallbackStopsAfterOne(ctls, msgs, clientId) ==
  LET controller == ctls[clientId]
      nextChunk == SliceTo(controller.buffer, STREAM_CHARS_PER_TICK)
      left == SliceFrom(controller.buffer, STREAM_CHARS_PER_TICK)
  IN  [ctls |-> [ctls EXCEPT ![clientId] = [buffer |-> left, timer |-> FALSE]],
       msgs |-> AppendContent(msgs, clientId, nextChunk)]

\* a callback that stops its interval only when it finds the buffer empty
intervalCallbackLazyStop(ctls, msgs, clientId) ==
  LET controller == ctls[clientId] IN
  IF controller.buffer = <<>>
  THEN [ctls |-> [ctls EXCEPT ![clientId].timer = FALSE], msgs |-> msgs]
  ELSE LET nextChunk == SliceTo(controller.buffer, STREAM_CHARS_PER_TICK)
           left == SliceFrom(controller.buffer, STREAM_CHARS_PER_TICK)
       IN  [ctls |-> [ctls EXCEPT ![clientId] = [buffer |-> left, timer |-> TRUE]],
            msgs |-> AppendContent(msgs, clientId, nextChunk)]

\* The setInterval callback of clientId's controller.
intervalCallback(ctls, msgs, clientId) ==
  LET controller == ctls[clientId] IN
  IF controller.buffer = <<>>
  THEN [ctls |-> [ctls EXCEPT ![clientId].timer = FALSE], msgs |-> msgs]
  ELSE LET nextChunk == SliceTo(controller.buffer, STREAM_CHARS_PER_TICK)
           left == SliceFrom(controller.buffer, STREAM_CHARS_PER_TICK)
       IN  [ctls |-> [ctls EXCEPT ![clientId] =
                        [buffer |-> left, timer |-> left # <<>>]],
            msgs |-> AppendContent(msgs, clientId, nextChunk)]

\* the number of clearInterval calls the callback makes: one when it finds
\* or leaves the buffer empty
IntervalsClearedByCallback(ctls, clientId) ==
  IF Len(ctls[clientId].buffer) <= STREAM_CHARS_PER_TICK THEN 1 ELSE 0

\* the number of clearInterval calls finalizeStreamController makes
IntervalsClearedByFinalize(ctls, clientId) ==
  IF clientId \in DOMAIN ctls /\ ctls[clientId].timer THEN 1 ELSE 0

\* a finalize that drains the buffer but keeps the entry and its interval
finalizeKeepsTimer(ctls, msgs, clientId) ==
  IF clientId \notin DOMAIN ctls THEN [ctls |-> ctls, msgs |-> msgs]
  ELSE [ctls |-> [ctls EXCEPT ![clientId].buffer = <<>>],
        msgs |-> IF ctls[clientId].buffer # <<>>
                 THEN AppendContent(msgs, clientId, ctls[clientId].buffer)
                 ELSE msgs]

finalizeNoDrain(ctls, msgs, clientId) ==
  IF clientId \notin DOMAIN ctls THEN [ctls |-> ctls, msgs |-> msgs]
  ELSE [ctls |-> Delete(ctls, clientId), msgs |-> msgs]

finalizeStreamController(ctls, msgs, clientId) ==
  IF clientId \notin DOMAIN ctls THEN [ctls |-> ctls, msgs |-> msgs]
  ELSE [ctls |-> Delete(ctls, clientId),
        msgs |-> IF ctls[clientId].buffer # <<>>
                 THEN AppendContent(msgs, clientId, ctls[clientId].buffer)
                 ELSE msgs]

\* -------------------------------------------------- streamChat.processLine
\* The lines of a stream body. Each is one character of the model: the whole
\* JSON text of one event, or a text that is no JSON.
ContentDelta == <<"H", "e", "l", "l", "o", " ", "w">>

SecondDelta == <<"o", "r">>

EventLines ==
  {"{content}", "{tool_event}", "{signal_created}", "{done}", "{error}", "{status}",
   "not-json"}

\* the type tag of each event line
EventType ==
  ("{content}" :> "content") @@ ("{tool_event}" :> "tool_event") @@
  ("{signal_created}" :> "signal_created") @@ ("{done}" :> "done") @@
  ("{error}" :> "error") @@ ("{status}" :> "status") @@
  ("{content2}" :> "content") @@ ("{tool_event2}" :> "tool_event")

\* JSON.parse(line): ok is FALSE when it throws.
JSONparse(line) ==
  IF Len(line) = 1 /\ line[1] \in DOMAIN EventType
  THEN [ok |-> TRUE,
        type |-> EventType[line[1]],
        data |-> IF line[1] = "{content}" THEN ContentDelta
                 ELSE IF line[1] = "{content2}" THEN SecondDelta
                 ELSE line[1]]
  ELSE [ok |-> FALSE, type |-> "", data |-> ""]

\* a tool event is put in front of the list
processLinePrepends(st, clientId, line) ==
  IF line = <<>> THEN st
  ELSE LET payload == JSONparse(line) IN
       IF ~payload.ok THEN st
       ELSE IF payload.type = "content"
            THEN IF payload.data # <<>>
                 THEN [st EXCEPT !.assistantText = @ \o payload.data,
                                 !.ctls = appendAnimatedChunk(@, clientId, payload.data)]
                 ELSE st
       ELSE IF payload.type = "signal_created"
            THEN [st EXCEPT !.signalNotice = "Signal created: Monitoring @user",
                            !.signals = Append(@, "signal")]
       ELSE IF payload.type = "tool_event"
            THEN [st EXCEPT !.toolEvents = <<payload.data>> \o @,
                            !.isProcessingTools = TRUE]
       ELSE IF payload.type = "done"
            THEN [st EXCEPT !.isProcessingTools = FALSE]
       ELSE st

\* a malformed line discards what the stream has delivered so far
processLineFatal(st, clientId, line) ==
  IF line = <<>> THEN st
  ELSE LET payload == JSONparse(line) IN
       IF ~payload.ok THEN [st EXCEPT !.assistantText = <<>>]
       ELSE IF payload.type = "content"
            THEN IF payload.data # <<>>
                 THEN [st EXCEPT !.assistantText = @ \o payload.data,
                                 !.ctls = appendAnimatedChunk(@, clientId, payload.data)]
                 ELSE st
       ELSE IF payload.type = "signal_created"
            THEN [st EXCEPT !.signalNotice = "Signal created: Monitoring @user",
                            !.signals = Append(@, "signal")]
       ELSE IF payload.type = "tool_event"
            THEN [st EXCEPT !.toolEvents = Append(@, payload.data),
                            !.isProcessingTools = TRUE]
       ELSE IF payload.type = "done"
            THEN [st EXCEPT !.isProcessingTools = FALSE]
       ELSE st

\* What processLine reads and writes: the local assistantText, the controller
\* map (through onContentChunk = appendAnimatedChunk) and the side state.
\* A throw inside the try block, by JSON.parse or by the error branch, is
\* caught by the catch of the same try block, which only logs.
processLine(st, clientId, line) ==
  IF line = <<>> THEN st
  ELSE LET payload == JSONparse(line) IN
       IF ~payload.ok THEN st
       ELSE IF payload.type = "content"
            THEN IF payload.data # <<>>
                 THEN [st EXCEPT !.assistantText = @ \o payload.data,
                                 !.ctls = appendAnimatedChunk(@, clientId, payload.data)]
                 ELSE st
       ELSE IF payload.type = "signal_created"
            THEN [st EXCEPT !.signalNotice = "Signal created: Monitoring @user",
                            !.signals = Append(@, "signal")]
       ELSE IF payload.type = "tool_event"
            THEN [st EXCEPT !.toolEvents = Append(@, payload.data),
                            !.isProcessingTools = TRUE]
       ELSE IF payload.type = "done"
            THEN [st EXCEPT !.isProcessingTools = FALSE]
       ELSE st

\* parts.forEach((part) => processLine(part))
RECURSIVE processLines(_, _, _)
processLines(st, clientId, lines) ==
  IF lines = <<>> THEN st
  ELSE processLines(processLine(st, clientId, Head(lines)), clientId, Tail(lines))

\* the terminal event among lines, if any (done or error), else closed
RECURSIVE TerminalSeen(_, _)
TerminalSeen(closed, lines) ==
  IF lines = <<>> THEN closed
  ELSE TerminalSeen(
         IF closed = "none" /\ JSONparse(Head(lines)).ok
            /\ JSONparse(Head(lines)).type \in {"done", "error"}
         THEN JSONparse(Head(lines)).type ELSE closed,
         Tail(lines))

\* ------------------------------------------------------------ fixed notices
FailureNotice == <<"There was an error generating a response.">>
NoResponseNotice == <<"No response received. Please try again.">>
ErrCreate == "Unable to start a new conversation right now."
ErrChat == "Chat service is unavailable. Please try again."
ErrNetwork == "network error"
ErrFetch == "Could not load the selected conversation."

\* --------------------------------------------------------------- variables
VARIABLES
  body,        \* the stream body the transport delivers (bytes)
  rest,        \* the bytes not yet read
  buffer,      \* streamChat's carry-over buffer
  pending,     \* the decoder holds a lead byte
  processed,   \* the lines handed to processLine so far
  readerState, \* "reading" until reader.read() reports done
  chunks,      \* number of chunks read so far
  messages,           \* the messages state of the component
  streamControllers,  \* streamControllers.current
  appended,    \* per clientId: the deltas passed to appendAnimatedChunk, concatenated
  appendCalls, \* per clientId: number of appendAnimatedChunk calls
  ticks,       \* per clientId: number of interval callbacks that ran
  finalized,   \* per clientId: finalizeStreamController ran after the last append
  liveIntervals, \* per clientId: the intervals set and not cleared (SpecAnim)
  selectedConversationId,  \* None or the id of the selected conversation
  isSending,
  error,               \* the error slot: None or a notice
  toolEvents,          \* StrategyChat: the tool events of the current send
  isProcessingTools,   \* StrategyChat
  signalNotice,        \* None or the notice of the last signal_created event
  signals,             \* StrategyChat: the watch targets added by signal_created
  send,                \* per handleSendMessage call: its position and locals
  nextSend,            \* number of handleSendMessage calls made so far
  closed,              \* per call: the first terminal event processLine was given
  serverConversations, \* the collaborator's record: conversation id -> messages
  unmounted,           \* the component has been torn down
  authority,           \* the authority's watch targets: id -> status, conversation_id
  authorityConversations, \* the ids of the conversations the authority keeps
  tableSignals,        \* SignalsTable: the signals state (the local list)
  isLoading,           \* SignalsTable
  tableError,          \* SignalsTable: the error slot
  deleteConfirmId,     \* SignalsTable: None or the target whose deletion awaits confirmation
  deleteSignalConfirmId, \* StrategyChat sidebar: the same
  ops,                 \* per handler call of the table or the sidebar: its position and locals
  authorityEvents,     \* the authority: per target its events, as GET /signals/{id}/events lists them
  selectedSignalId,    \* SignalsTable: None or the target whose events are shown
  detailMounts,        \* number of SignalEventDetail instances mounted so far
  fetchCalls,          \* number of fetchEvents calls made so far
  events,              \* SignalEventDetail: the loaded events
  eventsIsLoading,     \* SignalEventDetail: isLoading
  eventsError,         \* SignalEventDetail: the error slot
  selectedEvent,       \* SignalEventDetail: the event of the detail view
  eventFetches,        \* per fetchEvents call: its instance, its position and its response
  conversations,          \* the conversations of the sidebar, newest first
  conversationDeleteConfirmId, \* deleteConfirmId of the chat: the conversation to confirm
  isLoadingConversation,  \* the spinner of fetchConversation
  conversationOps         \* the fetches and deletes of conversations

decodeVars == <<body, rest, buffer, pending, processed, readerState, chunks>>

animVars == <<messages, streamControllers>>

animHistory == <<appended, appendCalls, ticks, finalized, liveIntervals>>

sideVars == <<toolEvents, isProcessingTools, signalNotice, signals>>

sessionVars ==
  <<selectedConversationId, isSending, error, sideVars, send, nextSend, closed,
    serverConversations>>

lifeVars == <<unmounted>>

listVars ==
  <<conversations, conversationDeleteConfirmId, isLoadingConversation, conversationOps>>

tableVars ==
  <<authority, authorityConversations, tableSignals, isLoading, tableError,
    deleteConfirmId, deleteSignalConfirmId, ops>>

feedVars ==
  <<authorityEvents, selectedSignalId, detailMounts, fetchCalls, events, eventsIsLoading,
    eventsError, selectedEvent, eventFetches>>

vars == <<decodeVars, animVars, animHistory, sessionVars, lifeVars, listVars, tableVars, feedVars>>

\* the two correlation ids of the transcript specification
AnimIds == {"c1", "c2"}

\* values of the variables a specification does not use
DecodeIdle ==
  /\ body = <<>>
  /\ rest = <<>>
  /\ buffer = <<>>
  /\ pending = FALSE
  /\ processed = <<>>
  /\ readerState = "idle"
  /\ chunks = 0

AnimIdle ==
  /\ messages = <<>>
  /\ streamControllers = <<>>

SendIds == 1..MaxSends

\* a handleSendMessage call that has not been made; given is the history of
\* the lines its stream has handed to processLine
NoSend ==
  [pc |-> "idle", conversationId |-> None, text |-> <<>>, buffer |-> <<>>,
   pending |-> FALSE, assistantText |-> <<>>, nlines |-> 0,
   lastLine |-> FALSE, given |-> <<>>]

SessionInit ==
  /\ selectedConversationId = None
  /\ isSending = FALSE
  /\ error = None
  /\ toolEvents = <<>>
  /\ isProcessingTools = FALSE
  /\ signalNotice = None
  /\ signals = <<>>
  /\ send = [s \in SendIds |-> NoSend]
  /\ nextSend = 0
  /\ closed = [s \in SendIds |-> "none"]
  /\ serverConversations = <<>>

AnimHistoryIdle ==
  /\ appended = [c \in AnimIds |-> <<>>]
  /\ appendCalls = [c \in AnimIds |-> 0]
  /\ ticks = [c \in AnimIds |-> 0]
  /\ finalized = [c \in AnimIds |-> FALSE]
  /\ liveIntervals = [c \in AnimIds |-> 0]

LifeIdle == unmounted = FALSE

ListIdle ==
  /\ conversations = <<>>
  /\ conversationDeleteConfirmId = None
  /\ isLoadingConversation = FALSE
  /\ conversationOps = <<>>

\* an event that is none: null
NoEvent == [id |-> None, timestamp |-> 0]

\* a fetchEvents call that has not been made
NoFetch == [signalId |-> None, instance |-> 0, pc |-> "idle", data |-> <<>>]

FeedIdle ==
  /\ authorityEvents = <<>>
  /\ selectedSignalId = None
  /\ detailMounts = 0
  /\ fetchCalls = 0
  /\ events = <<>>
  /\ eventsIsLoading = TRUE
  /\ eventsError = None
  /\ selectedEvent = NoEvent
  /\ eventFetches = <<>>

TableIdle ==
  /\ authority = <<>>
  /\ authorityConversations = {}
  /\ tableSignals = <<>>
  /\ isLoading = TRUE
  /\ tableError = None
  /\ deleteConfirmId = None
  /\ deleteSignalConfirmId = None
  /\ ops = <<>>

\* ------------------------------------------- specification of the read loop
ByteAlphabet == {"a", " ", "\n", "L", "T"}

Bodies == UNION {[1..n -> ByteAlphabet] : n \in 0..MaxBody}

DecodeInit ==
  /\ body \in Bodies
  /\ rest = body
  /\ buffer = <<>>
  /\ pending = FALSE
  /\ processed = <<>>
  /\ readerState = "reading"
  /\ chunks = 0
  /\ AnimIdle
  /\ AnimHistoryIdle
  /\ SessionInit
  /\ LifeIdle
  /\ ListIdle
  /\ FeedIdle
  /\ TableIdle

\* reader.read() resolves with a chunk of k bytes.
ReaderRead(k) ==
  /\ readerState = "reading"
  /\ k \in 1..Len(rest)
  /\ LET r == ReadChunk(buffer, pending, SubSeq(rest, 1, k)) IN
       /\ buffer' = r.buffer
       /\ pending' = r.pending
       /\ processed' = processed \o r.lines
  /\ rest' = SubSeq(rest, k + 1, Len(rest))
  /\ chunks' = chunks + 1
  /\ UNCHANGED <<body, readerState, animVars, animHistory, sessionVars, lifeVars, listVars, feedVars, tableVars>>

\* reader.read() resolves with done: the loop ends and the buffer is flushed.
ReaderDone ==
  /\ readerState = "reading"
  /\ rest = <<>>
  /\ processed' = processed \o FlushBuffer(buffer)
  /\ readerState' = "done"
  /\ UNCHANGED <<body, rest, buffer, pending, chunks, animVars, animHistory, sessionVars, lifeVars, listVars, feedVars, tableVars>>

DecodeNext ==
  \/ \E k \in 1..MaxBody : ReaderRead(k)
  \/ ReaderDone

SpecDecode == DecodeInit /\ [][DecodeNext]_vars

\* C2: however the body is cut into chunks, processLine receives the same
\* non-blank lines, as often and in the same order, as when the whole body
\* arrives as one chunk; a last line without newline is processed once, at
\* the end of the stream.
C2_ChunkingIndependent ==
  readerState = "done" =>
    /\ processed = WholeBodyLines(body)
    /\ processed = TrimAll(SelectSeq(Split(decode(FALSE, body).out), NonBlank))

\* a body whose last line has no trailing newline, cut after every byte
C2_Witness ==
  /\ readerState = "done"
  /\ chunks = 4
  /\ body = <<"a", "\n", "L", "T">>
  /\ processed = <<<<"a">>, <<TwoByteChar>>>>

\* ------------------------------------- specification of the transcript
\* Two placeholders are streaming next to a reconciled message; append,
\* interval callback and finalize run in any order.
Deltas == {<<>>, <<"H", "e", "l">>, <<"l", "o">>}

AnimInit ==
  /\ messages = <<Message("user", <<"h", "i">>, None),
                  Message("assistant", <<>>, "c1"),
                  Message("assistant", <<>>, "c2")>>
  /\ streamControllers = <<>>
  /\ AnimHistoryIdle
  /\ DecodeIdle
  /\ SessionInit
  /\ LifeIdle
  /\ ListIdle
  /\ FeedIdle
  /\ TableIdle

AnimAppend(clientId, chunk) ==
  /\ appendCalls[clientId] < MaxAppends
  /\ streamControllers' = appendAnimatedChunk(streamControllers, clientId, chunk)
  /\ appended' = [appended EXCEPT ![clientId] = @ \o chunk]
  /\ appendCalls' = [appendCalls EXCEPT ![clientId] = @ + 1]
  /\ finalized' = [finalized EXCEPT ![clientId] = @ /\ chunk = <<>>]
  /\ liveIntervals' = [liveIntervals EXCEPT
                         ![clientId] = @ + IntervalsSet(streamControllers, clientId, chunk)]
  /\ UNCHANGED <<messages, ticks, decodeVars, sessionVars, lifeVars, listVars, feedVars, tableVars>>

\* the interval of clientId's controller fires
TimerEnabled(clientId) ==
  /\ clientId \in DOMAIN streamControllers
  /\ streamControllers[clientId].timer

AnimTick(clientId) ==
  /\ TimerEnabled(clientId)
  /\ LET r == intervalCallback(streamControllers, messages, clientId) IN
       /\ streamControllers' = r.ctls
       /\ messages' = r.msgs
  /\ ticks' = [ticks EXCEPT ![clientId] = @ + 1]
  /\ liveIntervals' = [liveIntervals EXCEPT
                         ![clientId] = @ - IntervalsClearedByCallback(streamControllers, clientId)]
  /\ UNCHANGED <<appended, appendCalls, finalized, decodeVars, sessionVars, lifeVars, listVars, feedVars, tableVars>>

AnimFinalize(clientId) ==
  /\ ~finalized[clientId]
  /\ LET r == finalizeStreamController(streamControllers, messages, clientId) IN
       /\ streamControllers' = r.ctls
       /\ messages' = r.msgs
  /\ finalized' = [finalized EXCEPT ![clientId] = TRUE]
  /\ liveIntervals' = [liveIntervals EXCEPT
                         ![clientId] = @ - IntervalsClearedByFinalize(streamControllers, clientId)]
  /\ UNCHANGED <<appended, appendCalls, ticks, decodeVars, sessionVars, lifeVars, listVars, feedVars, tableVars>>

AnimNext ==
  \/ \E clientId \in AnimIds, chunk \in Deltas : AnimAppend(clientId, chunk)
  \/ \E clientId \in AnimIds : AnimTick(clientId)
  \/ \E clientId \in AnimIds : AnimFinalize(clientId)

SpecAnim == AnimInit /\ [][AnimNext]_vars

\* C1: after finalizeStreamController the placeholder's content is the
\* concatenation, in call order, of all deltas passed to appendAnimatedChunk,
\* whatever the interleaving of appends and interval callbacks.
C1_FinalContentIsConcatenation ==
  \A clientId \in AnimIds :
    finalized[clientId] => ContentOf(messages, clientId) = appended[clientId]

\* 'Hel', 'lo', 'Hel' with an interval callback in between, then finalize
C1_Witness ==
  /\ finalized["c1"]
  /\ appended["c1"] = <<"H", "e", "l", "l", "o", "H", "e", "l">>
  /\ ticks["c1"] = 1
  /\ ContentOf(messages, "c1") = <<"H", "e", "l", "l", "o", "H", "e", "l">>

\* C20: a correlation id never has more than one playback ticker, however
\* many append calls are made and whenever they are made; the ticker that
\* runs is the one its controller holds; and after every append of a
\* non-empty delta exactly one ticker runs for the id.
C20_OneTickerPerId ==
  /\ [](\A clientId \in AnimIds :
          /\ liveIntervals[clientId] <= 1
          /\ liveIntervals[clientId] = 1 <=> TimerEnabled(clientId))
  /\ [][\A clientId \in AnimIds :
          appended'[clientId] # appended[clientId] => liveIntervals'[clientId] = 1]_vars

\* three appends to c1, the second while the ticker of the first runs, the
\* third after an interval callback has emptied the buffer and stopped it
C20_Witness ==
  /\ appendCalls["c1"] = 3
  /\ appended["c1"] = <<"H", "e", "l", "l", "o", "H", "e", "l">>
  /\ ticks["c1"] = 2
  /\ ContentOf(messages, "c1") = <<"H", "e", "l", "l", "o">>
  /\ liveIntervals["c1"] = 1

\* the step is an append, an interval callback or a finalize of clientId
ActsOn(clientId) ==
  \/ appendCalls'[clientId] # appendCalls[clientId]
  \/ ticks'[clientId] # ticks[clientId]
  \/ finalized'[clientId] # finalized[clientId]

\* C21: an interval callback moves the first min(STREAM_CHARS_PER_TICK,
\* buffer length) characters of the buffer to the end of the content and
\* leaves the rest in the buffer; the callback that empties the buffer stops
\* the ticker, so between steps a ticker runs only for a non-empty buffer.
C21_TickMovesPrefixAndStops ==
  /\ [](\A clientId \in DOMAIN streamControllers :
          streamControllers[clientId].timer => streamControllers[clientId].buffer # <<>>)
  /\ [][\A clientId \in AnimIds :
          ticks'[clientId] # ticks[clientId] =>
            LET b == streamControllers[clientId].buffer
                n == IF Len(b) < STREAM_CHARS_PER_TICK THEN Len(b) ELSE STREAM_CHARS_PER_TICK
            IN /\ ContentOf(messages', clientId) =
                    ContentOf(messages, clientId) \o SubSeq(b, 1, n)
               /\ streamControllers'[clientId].buffer = SubSeq(b, n + 1, Len(b))
               /\ streamControllers'[clientId].timer = (n < Len(b))]_vars

\* eight characters were appended before the first callback: the first
\* callback moved five, the second the other three and stopped the ticker
C21_Witness ==
  /\ appendCalls["c1"] = 3
  /\ ticks["c1"] = 2
  /\ ContentOf(messages, "c1") = <<"H", "e", "l", "l", "o", "H", "e", "l">>
  /\ "c1" \in DOMAIN streamControllers
  /\ streamControllers["c1"] = [buffer |-> <<>>, timer |-> FALSE]

\* C22: a finalize that finds the buffer non-empty puts the whole buffer at
\* the end of the content in that step and leaves no ticker: no interval
\* callback of the id runs after it (until text is appended again).
C22_FinalizeDrainsAtOnce ==
  /\ [][\A clientId \in AnimIds :
          (/\ ~finalized[clientId] /\ finalized'[clientId]
           /\ clientId \in DOMAIN streamControllers
           /\ streamControllers[clientId].buffer # <<>>) =>
            /\ ContentOf(messages', clientId) =
                 ContentOf(messages, clientId) \o streamControllers[clientId].buffer
            /\ ~TimerEnabled(clientId)']_vars
  /\ [](\A clientId \in AnimIds : finalized[clientId] => ~TimerEnabled(clientId))
  /\ [][\A clientId \in AnimIds :
          (finalized[clientId] /\ finalized'[clientId]) =>
            ticks'[clientId] = ticks[clientId]]_vars

\* finalize came before the first interval callback: the five buffered
\* characters are all in the content and the id has no controller
C22_Witness ==
  /\ finalized["c1"]
  /\ ticks["c1"] = 0
  /\ appended["c1"] = <<"H", "e", "l", "l", "o">>
  /\ ContentOf(messages, "c1") = <<"H", "e", "l", "l", "o">>
  /\ "c1" \notin DOMAIN streamControllers

\* C23: an append, an interval callback or a finalize of one id leaves the
\* controllers of the other ids as they are, and the content of every
\* message that does not carry the id, the messages without clientId
\* included.
C23_IdsAreIndependent ==
  [][\A clientId \in AnimIds :
       ActsOn(clientId) =>
         /\ DOMAIN streamControllers' \ {clientId} = DOMAIN streamControllers \ {clientId}
         /\ \A other \in DOMAIN streamControllers \ {clientId} :
              streamControllers'[other] = streamControllers[other]
         /\ Len(messages') = Len(messages)
         /\ \A i \in 1..Len(messages) :
              messages[i].clientId # clientId => messages'[i] = messages[i]]_vars

\* both placeholders have streamed, each its own text, next to the
\* reconciled user message
C23_Witness ==
  /\ ticks["c1"] = 1 /\ ticks["c2"] = 1
  /\ ContentOf(messages, "c1") = <<"H", "e", "l">>
  /\ ContentOf(messages, "c2") = <<"l", "o">>
  /\ messages[1] = Message("user", <<"h", "i">>, None)

\* --------------------------------------------- specification of a session
\* createClientId(): a fresh id per call
\* an id source that hands out the same id twice
createClientIdRepeats(s) == "c1"

createClientId(s) == "c" \o ToString(s)

Inputs == {<<" ">>, <<"h", "i">>}

InFlight == {"creating", "opening", "reading", "refetching"}

\* The collaborator that keeps the conversations: it creates an empty
\* conversation under a new id, appends the user message when it accepts a
\* chat request and appends its reply when it has written the stream.
ServerNewId(convs) == "conv" \o ToString(Cardinality(DOMAIN convs) + 1)

ServerCreate(convs) == Put(convs, ServerNewId(convs), <<>>)

ServerTakeMessage(convs, conversationId, text) ==
  [convs EXCEPT ![conversationId] = Append(@, Message("user", text, None))]

ServerStoreReply(convs, conversationId) ==
  [convs EXCEPT ![conversationId] = Append(@, Message("assistant", <<"reply">>, None))]

\* setMessages((prev) => [...prev, userMessage, assistantPlaceholder]); setIsSending(true)
\* followed by the fetch of streamChat
OptimisticAppend(s, msgs, conversationId, text) ==
  /\ messages' = msgs \o <<Message("user", text, None),
                           Message("assistant", <<>>, createClientId(s))>>
  /\ isSending' = TRUE
  /\ send' = [send EXCEPT ![s] = [NoSend EXCEPT !.pc = "opening",
                                               !.conversationId = conversationId,
                                               !.text = text]]

\* handleSendMessage up to its first request. viaButton: the submit button,
\* which is disabled while isSending or while the input is blank; otherwise
\* the Enter key of the textarea, which calls handleSendMessage directly.
\* A call with a blank input returns at once and changes nothing.
handleSendMessage(s, input, viaButton) ==
  /\ s = nextSend + 1
  /\ s \in SendIds
  /\ viaButton => ~isSending /\ Trim(input) # <<>>
  /\ IF Trim(input) = <<>>
     THEN UNCHANGED <<messages, isSending, error, toolEvents, isProcessingTools, send,
                      nextSend>>
     ELSE /\ nextSend' = s
          /\ error' = None
          /\ toolEvents' = <<>>
          /\ isProcessingTools' = FALSE
          /\ IF selectedConversationId # None
             THEN OptimisticAppend(s, messages, selectedConversationId, Trim(input))
             ELSE /\ send' = [send EXCEPT ![s] = [NoSend EXCEPT !.pc = "creating",
                                                               !.text = Trim(input)]]
                  /\ UNCHANGED <<messages, isSending>>
  /\ UNCHANGED <<streamControllers, selectedConversationId, signalNotice, signals,
                 closed, serverConversations, decodeVars, animHistory, lifeVars, listVars, feedVars, tableVars>>

SubmitButton(s, input) == handleSendMessage(s, input, TRUE)

EnterKey(s, input) == handleSendMessage(s, input, FALSE)

\* The local variables of a call end with the call.
Exit(s) == [NoSend EXCEPT !.pc = "exited"]

\* POST /conversations succeeds: the collaborator has created a conversation,
\* handleCreateConversation selects it and handleSendMessage goes on to the
\* optimistic append.
CreateConversationOk(s) ==
  /\ send[s].pc = "creating"
  /\ LET id == ServerNewId(serverConversations) IN
       /\ serverConversations' = ServerCreate(serverConversations)
       /\ selectedConversationId' = id
       /\ signalNotice' = None
       /\ OptimisticAppend(s, <<>>, id, send[s].text)
  /\ UNCHANGED <<streamControllers, error, toolEvents, isProcessingTools, signals,
                 nextSend, closed, decodeVars, animHistory, lifeVars, listVars, feedVars, tableVars>>

\* POST /conversations fails: handleCreateConversation sets the error and
\* rethrows; handleSendMessage is not yet inside its try block.
CreateConversationFail(s) ==
  /\ send[s].pc = "creating"
  /\ error' = ErrCreate
  /\ send' = [send EXCEPT ![s] = Exit(s)]
  /\ UNCHANGED <<messages, streamControllers, selectedConversationId, isSending,
                 sideVars, nextSend, closed, serverConversations, decodeVars, animHistory, lifeVars, listVars, feedVars, tableVars>>

\* catch and finally of handleSendMessage: the error slot, the failure
\* notice, then finalizeStreamController, then setIsSending(false)
CatchAndFinally(s, message) ==
  /\ error' = message
  /\ LET r == finalizeStreamController(
                streamControllers,
                SetContent(messages, createClientId(s), FailureNotice),
                createClientId(s)) IN
       /\ streamControllers' = r.ctls
       /\ messages' = r.msgs
  /\ isSending' = FALSE
  /\ send' = [send EXCEPT ![s] = Exit(s)]

\* the fetch of streamChat rejects, or the response is not ok
StreamOpenFail(s) ==
  /\ send[s].pc = "opening"
  /\ CatchAndFinally(s, ErrChat)
  /\ UNCHANGED <<selectedConversationId, sideVars, nextSend, closed, serverConversations,
                 decodeVars, animHistory, lifeVars, listVars, feedVars, tableVars>>

\* the response arrives: the collaborator has taken the user message
StreamOpenOk(s) ==
  /\ send[s].pc = "opening"
  /\ send' = [send EXCEPT ![s].pc = "reading"]
  /\ serverConversations' =
       ServerTakeMessage(serverConversations, send[s].conversationId, send[s].text)
  /\ UNCHANGED <<messages, streamControllers, selectedConversationId, isSending, error,
                 sideVars, nextSend, closed, decodeVars, animHistory, lifeVars, listVars, feedVars, tableVars>>

LineState(s) ==
  [assistantText |-> send[s].assistantText, ctls |-> streamControllers,
   signalNotice |-> signalNotice, signals |-> signals,
   toolEvents |-> toolEvents, isProcessingTools |-> isProcessingTools]

\* reader.read() resolves with a chunk: the next line of the body, newline
\* terminated unless it is the last line of the body.
StreamRead(s, line, terminated) ==
  /\ send[s].pc = "reading"
  /\ ~send[s].lastLine
  /\ LET r == ReadChunk(send[s].buffer, send[s].pending,
                        IF terminated THEN <<line, "\n">> ELSE <<line>>)
         st == processLines(LineState(s), createClientId(s), r.lines)
     IN /\ send' = [send EXCEPT ![s].buffer = r.buffer,
                                ![s].pending = r.pending,
                                ![s].assistantText = st.assistantText,
                                ![s].nlines = @ + 1,
                                ![s].lastLine = ~terminated,
                                ![s].given = @ \o r.lines]
        /\ closed' = [closed EXCEPT ![s] = TerminalSeen(@, r.lines)]
        /\ streamControllers' = st.ctls
        /\ signalNotice' = st.signalNotice
        /\ signals' = st.signals
        /\ toolEvents' = st.toolEvents
        /\ isProcessingTools' = st.isProcessingTools
  /\ UNCHANGED <<messages, selectedConversationId, isSending, error, nextSend,
                 serverConversations, decodeVars, animHistory, lifeVars, listVars, feedVars, tableVars>>

\* reader.read() rejects: the connection broke in mid-stream
StreamReadFail(s) ==
  /\ send[s].pc = "reading"
  /\ CatchAndFinally(s, ErrNetwork)
  /\ UNCHANGED <<selectedConversationId, sideVars, nextSend, closed, serverConversations,
                 decodeVars, animHistory, lifeVars, listVars, feedVars, tableVars>>

\* an end of stream that writes the notice whatever was delivered
StreamEndAlwaysNotice(s) ==
  /\ send[s].pc = "reading"
  /\ LET lines == FlushBuffer(send[s].buffer)
         st == processLines(LineState(s), createClientId(s), lines)
         r == finalizeStreamController(st.ctls, messages, createClientId(s))
     IN /\ send' = [send EXCEPT ![s].pc = "refetching",
                                ![s].buffer = <<>>,
                                ![s].assistantText = st.assistantText,
                                ![s].given = @ \o lines]
        /\ closed' = [closed EXCEPT ![s] = TerminalSeen(@, lines)]
        /\ streamControllers' = r.ctls
        /\ messages' = SetContent(r.msgs, createClientId(s), NoResponseNotice)
        /\ signalNotice' = st.signalNotice
        /\ signals' = st.signals
        /\ toolEvents' = st.toolEvents
        /\ isProcessingTools' = st.isProcessingTools
        /\ serverConversations' =
             ServerStoreReply(serverConversations, send[s].conversationId)
  /\ error' = None
  /\ UNCHANGED <<selectedConversationId, isSending, nextSend, decodeVars, animHistory, lifeVars, listVars, feedVars, tableVars>>

\* reader.read() reports done: the buffer is flushed, streamChat returns
\* assistantText, and handleSendMessage finalizes and issues the re-fetch
\* (fetchConversation with showSpinner false, up to its await). By then the
\* collaborator has stored its reply.
StreamEnd(s) ==
  /\ send[s].pc = "reading"
  /\ LET lines == FlushBuffer(send[s].buffer)
         st == processLines(LineState(s), createClientId(s), lines)
         r == finalizeStreamController(st.ctls, messages, createClientId(s))
     IN /\ send' = [send EXCEPT ![s].pc = "refetching",
                                ![s].buffer = <<>>,
                                ![s].assistantText = st.assistantText,
                                ![s].given = @ \o lines]
        /\ closed' = [closed EXCEPT ![s] = TerminalSeen(@, lines)]
        /\ streamControllers' = r.ctls
        /\ messages' = IF st.assistantText = <<>>
                       THEN SetContent(r.msgs, createClientId(s), NoResponseNotice)
                       ELSE r.msgs
        /\ signalNotice' = st.signalNotice
        /\ signals' = st.signals
        /\ toolEvents' = st.toolEvents
        /\ isProcessingTools' = st.isProcessingTools
        /\ serverConversations' =
             ServerStoreReply(serverConversations, send[s].conversationId)
  /\ error' = None
  /\ UNCHANGED <<selectedConversationId, isSending, nextSend, decodeVars, animHistory, lifeVars, listVars, feedVars, tableVars>>

RefetchKeepsLocal(s) ==
  /\ send[s].pc = "refetching"
  /\ messages' = messages
  /\ isSending' = FALSE
  /\ send' = [send EXCEPT ![s] = Exit(s)]
  /\ UNCHANGED <<streamControllers, selectedConversationId, error, sideVars, nextSend,
                 closed, serverConversations, decodeVars, animHistory, lifeVars, listVars, feedVars, tableVars>>

\* GET /conversations/{id} succeeds: fetchConversation replaces the messages;
\* then the finally of handleSendMessage
RefetchOk(s) ==
  /\ send[s].pc = "refetching"
  /\ messages' = serverConversations[send[s].conversationId]
  /\ isSending' = FALSE
  /\ send' = [send EXCEPT ![s] = Exit(s)]
  /\ UNCHANGED <<streamControllers, selectedConversationId, error, sideVars, nextSend,
                 closed, serverConversations, decodeVars, animHistory, lifeVars, listVars, feedVars, tableVars>>

\* GET /conversations/{id} fails: fetchConversation catches, sets the error;
\* then the finally of handleSendMessage
RefetchFail(s) ==
  /\ send[s].pc = "refetching"
  /\ error' = ErrFetch
  /\ isSending' = FALSE
  /\ send' = [send EXCEPT ![s] = Exit(s)]
  /\ UNCHANGED <<messages, streamControllers, selectedConversationId, sideVars, nextSend,
                 closed, serverConversations, decodeVars, animHistory, lifeVars, listVars, feedVars, tableVars>>

\* an interval of the session's controllers fires
TimerTick(clientId) ==
  /\ TimerEnabled(clientId)
  /\ LET r == intervalCallback(streamControllers, messages, clientId) IN
       /\ streamControllers' = r.ctls
       /\ messages' = r.msgs
  /\ UNCHANGED <<sessionVars, decodeVars, animHistory, lifeVars, listVars, feedVars, tableVars>>

Init ==
  /\ SessionInit
  /\ AnimIdle
  /\ AnimHistoryIdle
  /\ DecodeIdle
  /\ LifeIdle
  /\ ListIdle
  /\ FeedIdle
  /\ TableIdle

\* Several calls in one session; every stream carries content lines.
SessionLines == {"{content}"}

Next ==
  \/ \E s \in SendIds, input \in Inputs : SubmitButton(s, input)
  \/ \E s \in SendIds, input \in Inputs : EnterKey(s, input)
  \/ \E s \in SendIds : CreateConversationOk(s)
  \/ \E s \in SendIds : CreateConversationFail(s)
  \/ \E s \in SendIds : StreamOpenFail(s)
  \/ \E s \in SendIds : StreamOpenOk(s)
  \/ \E s \in SendIds, line \in SessionLines :
       send[s].nlines < MaxSessionLines /\ StreamRead(s, line, TRUE)
  \/ \E s \in SendIds : StreamReadFail(s)
  \/ \E s \in SendIds : StreamEnd(s)
  \/ \E s \in SendIds : RefetchOk(s)
  \/ \E s \in SendIds : RefetchFail(s)
  \/ \E s \in SendIds : TimerTick(createClientId(s))

Spec == Init /\ [][Next]_vars

\* One call, whose stream carries every kind of line, the last of them with
\* or without a trailing newline.
FirstCall == {1}

StreamNext ==
  \/ \E s \in FirstCall, input \in Inputs : SubmitButton(s, input)
  \/ \E s \in FirstCall, input \in Inputs : EnterKey(s, input)
  \/ \E s \in FirstCall : CreateConversationOk(s)
  \/ \E s \in FirstCall : CreateConversationFail(s)
  \/ \E s \in FirstCall : StreamOpenFail(s)
  \/ \E s \in FirstCall : StreamOpenOk(s)
  \/ \E s \in FirstCall, line \in EventLines, terminated \in BOOLEAN :
       send[s].nlines < MaxLines /\ StreamRead(s, line, terminated)
  \/ \E s \in FirstCall : StreamReadFail(s)
  \/ \E s \in FirstCall : StreamEnd(s)
  \/ \E s \in FirstCall : RefetchOk(s)
  \/ \E s \in FirstCall : RefetchFail(s)
  \/ \E s \in FirstCall : TimerTick(createClientId(s))

SpecStream == Init /\ [][StreamNext]_vars

\* ------------------------------------- specification of a torn-down session
\* The cleanup of the mount effect: every interval of the controller map is
\* cleared and the map is replaced by an empty one. Nothing else ends: a
\* call that is in flight goes on reading its stream.
Teardown ==
  /\ ~unmounted
  /\ unmounted' = TRUE
  /\ streamControllers' = <<>>
  /\ UNCHANGED <<messages, sessionVars, decodeVars, animHistory, listVars, tableVars,
                 feedVars>>

\* One call, and the teardown at any moment; a component that is gone takes
\* no more input.
TeardownNext ==
  \/ \E s \in FirstCall, input \in Inputs : ~unmounted /\ SubmitButton(s, input)
  \/ \E s \in FirstCall, input \in Inputs : ~unmounted /\ EnterKey(s, input)
  \/ \E s \in FirstCall : CreateConversationOk(s)
  \/ \E s \in FirstCall : CreateConversationFail(s)
  \/ \E s \in FirstCall : StreamOpenFail(s)
  \/ \E s \in FirstCall : StreamOpenOk(s)
  \/ \E s \in FirstCall, line \in EventLines, terminated \in BOOLEAN :
       send[s].nlines < MaxLines /\ StreamRead(s, line, terminated)
  \/ \E s \in FirstCall : StreamReadFail(s)
  \/ \E s \in FirstCall : StreamEnd(s)
  \/ \E s \in FirstCall : RefetchOk(s)
  \/ \E s \in FirstCall : RefetchFail(s)
  \/ \E s \in FirstCall : TimerTick(createClientId(s))
  \/ Teardown

SpecTeardown == Init /\ [][TeardownNext]_vars

\* C12: after the teardown no playback ticker is active, and none becomes
\* active, whatever the stream of a call in flight delivers afterwards.
C12_NoTickerAfterTeardown ==
  unmounted => \A clientId \in DOMAIN streamControllers : ~streamControllers[clientId].timer

\* ------------------------------------------------- properties of a session
CallsInFlight == {s \in SendIds : send[s].pc \in InFlight}

\* C3: an error event ends the call as a failure: the animation is
\* finalized, the placeholder holds the failure notice alone and the error
\* slot is set.
C3_ErrorEventFailsSend ==
  \A s \in FirstCall :
    closed[s] = "error" =>
      /\ send[s].pc = "exited"
      /\ createClientId(s) \notin DOMAIN streamControllers
      /\ ContentOf(messages, createClientId(s)) = FailureNotice
      /\ error # None

\* C4: when a call fails by network failure, the placeholder's content is
\* the failure notice and nothing else, and the error slot is set.
C4_NetworkFailureLeavesOnlyNotice ==
  [][\A s \in FirstCall :
       (StreamOpenFail(s) \/ StreamReadFail(s)) =>
         /\ ContentOf(messages', createClientId(s)) = FailureNotice
         /\ error' # None]_vars

\* C5: at most one call is in flight at any time.
C5_AtMostOneSendInFlight == Cardinality(CallsInFlight) <= 1

\* C6: a call that ends, by whichever exit (stream completed, stream or
\* network error, creation failed, re-fetch failed), leaves isSending
\* false.
C6_FlagClearedOnEveryExit ==
  [][\A s \in SendIds :
       (send[s].pc \in InFlight /\ send'[s].pc = "exited") => ~isSending']_vars

\* C7: isSending is true for as long as a call is in flight, from the
\* moment the call has accepted the message.
C7_FlagHeldWhileInFlight == \A s \in SendIds : send[s].pc \in InFlight => isSending

\* C8: two requests to create a conversation are never outstanding.
C8_AtMostOneCreationPending ==
  Cardinality({s \in SendIds : send[s].pc = "creating"}) <= 1

\* C9: the re-fetch is issued after finalize (no controller is left for the
\* call while its re-fetch is pending), and when the re-fetch succeeds the
\* messages are those of the authoritative record: none carries a clientId
\* and the user message of the call is among them.
C9_FinalizeThenReconcile ==
  /\ [](\A s \in SendIds :
          send[s].pc = "refetching" => createClientId(s) \notin DOMAIN streamControllers)
  /\ [][\A s \in SendIds :
          RefetchOk(s) =>
            /\ messages' = serverConversations[send[s].conversationId]
            /\ \A i \in 1..Len(messages') : messages'[i].clientId = None
            /\ \E i \in 1..Len(messages') :
                 messages'[i] = Message("user", send[s].text, None)]_vars

\* a call has ended and the messages are the record of its conversation:
\* the user message and the stored reply
C9_Witness ==
  /\ send[1].pc = "exited"
  /\ selectedConversationId # None
  /\ messages = <<Message("user", <<"h", "i">>, None),
                  Message("assistant", <<"reply">>, None)>>

\* C10: once a done or error event has been processed, a later line of the
\* same stream appends no content and changes no side state.
C10_NothingAfterTerminalEvent ==
  [][\A s \in FirstCall :
       (/\ closed[s] # "none"
        /\ send[s].pc = "reading"
        /\ send'[s] # send[s]
        /\ send'[s].pc \in {"reading", "refetching"}) =>
         /\ send'[s].assistantText = send[s].assistantText
         /\ UNCHANGED sideVars]_vars

\* ------------------------------------------------ the watch targets
\* The authority that keeps the watch targets is the backend behind
\* /signals. Its rules are those of the lifecycle: pause takes active to
\* paused, resume takes paused to active, stop takes active or paused to
\* stopped, every other request is refused.
TargetIds == <<"t1", "t2">>

Statuses == {"active", "paused", "stopped"}

Commands == {"pause", "resume", "stop"}

\* a SignalResponse; conversation_id is None when the target has none
Target(id, status, conversation_id) ==
  [id |-> id, status |-> status, conversation_id |-> conversation_id]

\* the conversation each target was created in
ConversationOf == ("t1" :> "conv1") @@ ("t2" :> None)

AuthorityAccepts(auth, cmd, id) ==
  /\ id \in DOMAIN auth
  /\ \/ cmd = "pause" /\ auth[id].status = "active"
     \/ cmd = "resume" /\ auth[id].status = "paused"
     \/ cmd = "stop" /\ auth[id].status \in {"active", "paused"}

Result == ("pause" :> "paused") @@ ("resume" :> "active") @@ ("stop" :> "stopped")

AuthorityApply(auth, cmd, id) == [auth EXCEPT ![id].status = Result[cmd]]

\* GET /signals: the targets, in the authority's order
AuthorityList(auth) ==
  LET present(id) == id \in DOMAIN auth
      ids == SelectSeq(TargetIds, present)
  IN  [i \in 1..Len(ids) |-> auth[ids[i]]]

\* signals.find((s) => s.id === id), as the set of its positions
PositionsOf(list, id) == {i \in 1..Len(list) : list[i].id = id}

StatusIn(list, id) == list[CHOOSE i \in PositionsOf(list, id) : TRUE].status

\* prev.filter((s) => s.id !== id)
WithoutId(list, id) ==
  LET keep(t) == t.id # id IN SelectSeq(list, keep)

ErrLoadSignals == "Unable to load signals right now."

\* ------------------------------------------ specification of SignalsTable
\* Call 0 is the fetchSignals of the mount effect; calls 1.. are clicks.
OpIds == 0..MaxCommands

\* a handler call that has not been made
NoOp ==
  [kind |-> "none", id |-> None, pc |-> "idle", outcome |-> "none", list |-> <<>>,
   conversation_id |-> None, cascade |-> "none"]

OpsInFlight == {o \in DOMAIN ops : ops[o].pc \notin {"idle", "done"}}

TableInit ==
  /\ authority \in
       {[id \in {"t1", "t2"} |-> Target(id, st[id], ConversationOf[id])] :
          st \in [{"t1", "t2"} -> Statuses]}
  /\ authorityConversations = {"conv1"}
  /\ tableSignals = <<>>
  /\ isLoading = TRUE
  /\ tableError = None
  /\ deleteConfirmId = None
  /\ deleteSignalConfirmId = None
  /\ ops = [o \in OpIds |-> IF o = 0 THEN [NoOp EXCEPT !.kind = "mount", !.pc = "fetching"]
                                     ELSE NoOp]
  /\ SessionInit
  /\ AnimIdle
  /\ AnimHistoryIdle
  /\ DecodeIdle
  /\ LifeIdle
  /\ ListIdle
  /\ FeedIdle

\* The table is rendered, with its buttons, once the first fetch is over and
\* the error slot is empty.
TableRendered == ~isLoading /\ tableError = None

\* the next call
FreshOp(o) ==
  /\ o \in OpIds \ {0}
  /\ ops[o].pc = "idle"
  /\ \A k \in 1..(o - 1) : ops[k].pc # "idle"

ClickOptimistic(o, cmd, id) ==
  /\ FreshOp(o)
  /\ ops' = [ops EXCEPT ![o] = [NoOp EXCEPT !.kind = cmd, !.id = id, !.pc = "posted"]]
  /\ tableSignals' = [i \in 1..Len(tableSignals) |->
                        IF tableSignals[i].id = id
                        THEN [tableSignals[i] EXCEPT !.status = Result[cmd]]
                        ELSE tableSignals[i]]
  /\ UNCHANGED <<authority, authorityConversations, isLoading, tableError,
                 deleteConfirmId, deleteSignalConfirmId,
                 decodeVars, animVars, animHistory, sessionVars, lifeVars, listVars, feedVars>>

\* a click on a button of the row of id: the handler posts the command
Click(o, cmd, id) ==
  /\ FreshOp(o)
  /\ ops' = [ops EXCEPT ![o] = [NoOp EXCEPT !.kind = cmd, !.id = id, !.pc = "posted"]]
  /\ UNCHANGED <<authority, authorityConversations, tableSignals, isLoading, tableError,
                 deleteConfirmId, deleteSignalConfirmId,
                 decodeVars, animVars, animHistory, sessionVars, lifeVars, listVars, feedVars>>

\* a Pause button in every row
handlePauseAnyRow(o, id) ==
  /\ TableRendered
  /\ PositionsOf(tableSignals, id) # {}
  /\ Click(o, "pause", id)

\* the Pause button is rendered in the rows whose status is active
handlePause(o, id) ==
  /\ TableRendered
  /\ \E i \in PositionsOf(tableSignals, id) : tableSignals[i].status = "active"
  /\ Click(o, "pause", id)

\* the Resume button is rendered in the rows whose status is paused
handleResume(o, id) ==
  /\ TableRendered
  /\ \E i \in PositionsOf(tableSignals, id) : tableSignals[i].status = "paused"
  /\ Click(o, "resume", id)

\* the Stop button is rendered in the rows whose status is not stopped; the
\* user has answered the confirm dialog with yes
handleStop(o, id) ==
  /\ TableRendered
  /\ \E i \in PositionsOf(tableSignals, id) : tableSignals[i].status # "stopped"
  /\ Click(o, "stop", id)

\* the user has answered the confirm dialog of the Stop button with no:
\* handleStop returns before its request
handleStopDeclined(o, id) ==
  /\ TableRendered
  /\ \E i \in PositionsOf(tableSignals, id) : tableSignals[i].status # "stopped"
  /\ FreshOp(o)
  /\ ops' = [ops EXCEPT ![o] = [NoOp EXCEPT !.kind = "stop", !.id = id, !.pc = "done",
                                            !.outcome = "declined"]]
  /\ UNCHANGED <<authority, authorityConversations, tableSignals, isLoading, tableError,
                 deleteConfirmId, deleteSignalConfirmId,
                 decodeVars, animVars, animHistory, sessionVars, lifeVars, listVars, feedVars>>

\* the authority serves the POST: it performs the transition or refuses it
AuthorityServesPost(o) ==
  /\ ops[o].pc = "posted"
  /\ IF AuthorityAccepts(authority, ops[o].kind, ops[o].id)
     THEN /\ authority' = AuthorityApply(authority, ops[o].kind, ops[o].id)
          /\ ops' = [ops EXCEPT ![o].pc = "answered", ![o].outcome = "accepted"]
     ELSE /\ authority' = authority
          /\ ops' = [ops EXCEPT ![o].pc = "answered", ![o].outcome = "refused"]
  /\ UNCHANGED <<authorityConversations, tableSignals, isLoading, tableError,
                 deleteConfirmId, deleteSignalConfirmId,
                 decodeVars, animVars, animHistory, sessionVars, lifeVars, listVars, feedVars>>

\* the POST does not reach the authority
TransportError(o) ==
  /\ ops[o].pc = "posted"
  /\ ops' = [ops EXCEPT ![o].pc = "answered", ![o].outcome = "lost"]
  /\ UNCHANGED <<authority, authorityConversations, tableSignals, isLoading, tableError,
                 deleteConfirmId, deleteSignalConfirmId,
                 decodeVars, animVars, animHistory, sessionVars, lifeVars, listVars, feedVars>>

\* the mutation a refused command would make if it were applied locally
PostFailApplies(o) ==
  /\ ops[o].pc = "answered"
  /\ ops[o].outcome \in {"refused", "lost"}
  /\ ops' = [ops EXCEPT ![o].pc = "done"]
  /\ tableSignals' = [i \in 1..Len(tableSignals) |->
                        IF tableSignals[i].id = ops[o].id
                        THEN [tableSignals[i] EXCEPT !.status = Result[ops[o].kind]]
                        ELSE tableSignals[i]]
  /\ UNCHANGED <<authority, authorityConversations, isLoading, tableError,
                 deleteConfirmId, deleteSignalConfirmId,
                 decodeVars, animVars, animHistory, sessionVars, lifeVars, listVars, feedVars>>

\* a handler that posts again when its request has failed
PostFailRetries(o) ==
  /\ ops[o].pc = "answered"
  /\ ops[o].outcome \in {"refused", "lost"}
  /\ ops' = [ops EXCEPT ![o].pc = "posted", ![o].outcome = "none"]
  /\ UNCHANGED <<authority, authorityConversations, tableSignals, isLoading, tableError,
                 deleteConfirmId, deleteSignalConfirmId,
                 decodeVars, animVars, animHistory, sessionVars, lifeVars, listVars, feedVars>>

\* apiClient.post throws: the catch of the handler logs
PostFail(o) ==
  /\ ops[o].pc = "answered"
  /\ ops[o].outcome \in {"refused", "lost"}
  /\ ops' = [ops EXCEPT ![o].pc = "done"]
  /\ UNCHANGED <<authority, authorityConversations, tableSignals, isLoading, tableError,
                 deleteConfirmId, deleteSignalConfirmId,
                 decodeVars, animVars, animHistory, sessionVars, lifeVars, listVars, feedVars>>

\* apiClient.post resolves: the handler calls fetchSignals, which sends
\* GET /signals
PostOk(o) ==
  /\ ops[o].pc = "answered"
  /\ ops[o].outcome = "accepted"
  /\ ops' = [ops EXCEPT ![o].pc = "fetching"]
  /\ UNCHANGED <<authority, authorityConversations, tableSignals, isLoading, tableError,
                 deleteConfirmId, deleteSignalConfirmId,
                 decodeVars, animVars, animHistory, sessionVars, lifeVars, listVars, feedVars>>

\* the authority serves GET /signals with its list of that moment
AuthorityServesFetch(o) ==
  /\ ops[o].pc = "fetching"
  /\ ops' = [ops EXCEPT ![o].pc = "fetched", ![o].list = AuthorityList(authority)]
  /\ UNCHANGED <<authority, authorityConversations, tableSignals, isLoading, tableError,
                 deleteConfirmId, deleteSignalConfirmId,
                 decodeVars, animVars, animHistory, sessionVars, lifeVars, listVars, feedVars>>

\* only the first response fills the list
FetchKeepsLocal(o) ==
  /\ ops[o].pc = "fetched"
  /\ tableSignals' = IF isLoading THEN ops[o].list ELSE tableSignals
  /\ isLoading' = FALSE
  /\ ops' = [ops EXCEPT ![o].pc = "done", ![o].list = <<>>]
  /\ UNCHANGED <<authority, authorityConversations, tableError,
                 deleteConfirmId, deleteSignalConfirmId,
                 decodeVars, animVars, animHistory, sessionVars, lifeVars, listVars, feedVars>>

\* the response of GET /signals arrives: setSignals(data), setIsLoading(false)
FetchOk(o) ==
  /\ ops[o].pc = "fetched"
  /\ tableSignals' = ops[o].list
  /\ isLoading' = FALSE
  /\ ops' = [ops EXCEPT ![o].pc = "done", ![o].list = <<>>]
  /\ UNCHANGED <<authority, authorityConversations, tableError,
                 deleteConfirmId, deleteSignalConfirmId,
                 decodeVars, animVars, animHistory, sessionVars, lifeVars, listVars, feedVars>>

\* GET /signals fails: setError, setIsLoading(false)
FetchFail(o) ==
  /\ ops[o].pc \in {"fetching", "fetched"}
  /\ tableError' = ErrLoadSignals
  /\ isLoading' = FALSE
  /\ ops' = [ops EXCEPT ![o].pc = "done", ![o].list = <<>>]
  /\ UNCHANGED <<authority, authorityConversations, tableSignals,
                 deleteConfirmId, deleteSignalConfirmId,
                 decodeVars, animVars, animHistory, sessionVars, lifeVars, listVars, feedVars>>

\* Clicks at any moment: a second command may be given while the first one
\* or its re-fetch is outstanding.
TableNext ==
  \/ \E o \in OpIds, id \in {"t1", "t2"} : o <= MaxOverlapping /\ handlePause(o, id)
  \/ \E o \in OpIds, id \in {"t1", "t2"} : o <= MaxOverlapping /\ handleResume(o, id)
  \/ \E o \in OpIds, id \in {"t1", "t2"} : o <= MaxOverlapping /\ handleStop(o, id)
  \/ \E o \in OpIds : AuthorityServesPost(o)
  \/ \E o \in OpIds : TransportError(o)
  \/ \E o \in OpIds : PostOk(o)
  \/ \E o \in OpIds : PostFail(o)
  \/ \E o \in OpIds : AuthorityServesFetch(o)
  \/ \E o \in OpIds : FetchOk(o)
  \/ \E o \in OpIds : FetchFail(o)

SpecTable == TableInit /\ [][TableNext]_vars

\* One command at a time: the user waits for the re-fetch before the next
\* click.
TableSeqNext ==
  \/ \E o \in OpIds, id \in {"t1", "t2"} : OpsInFlight = {} /\ handlePause(o, id)
  \/ \E o \in OpIds, id \in {"t1", "t2"} : OpsInFlight = {} /\ handleResume(o, id)
  \/ \E o \in OpIds, id \in {"t1", "t2"} : OpsInFlight = {} /\ handleStop(o, id)
  \/ \E o \in OpIds : AuthorityServesPost(o)
  \/ \E o \in OpIds : TransportError(o)
  \/ \E o \in OpIds : PostOk(o)
  \/ \E o \in OpIds : PostFail(o)
  \/ \E o \in OpIds : AuthorityServesFetch(o)
  \/ \E o \in OpIds : FetchOk(o)
  \/ \E o \in OpIds : FetchFail(o)

SpecTableSeq == TableInit /\ [][TableSeqNext]_vars

\* --------------------------------- specification of the target deletions
\* A watch target can be deleted in the signals table (handleConfirmDelete
\* of SignalsTable) and in the sidebar of the strategy chat
\* (handleConfirmSignalDelete of StrategyChat). Both lists are loaded; the
\* sidebar's signals are the ids of the targets.
ErrDeleteSignal == "Unable to delete signal. Please try again."

\* DELETE /signals/{id} removes the target if the authority has it;
\* DELETE /conversations/{id} removes the conversation if it has it.
AuthorityDelete(auth, id) == [k \in DOMAIN auth \ {id} |-> auth[k]]

DeleteInit ==
  /\ authority = [id \in {"t1", "t2"} |-> Target(id, "active", ConversationOf[id])]
  /\ authorityConversations = {"conv1"}
  /\ tableSignals = AuthorityList(authority)
  /\ isLoading = FALSE
  /\ tableError = None
  /\ deleteConfirmId = None
  /\ deleteSignalConfirmId = None
  /\ ops = [o \in OpIds |-> IF o = 0 THEN [NoOp EXCEPT !.kind = "mount", !.pc = "done"]
                                     ELSE NoOp]
  /\ selectedConversationId = None
  /\ isSending = FALSE
  /\ error = None
  /\ toolEvents = <<>>
  /\ isProcessingTools = FALSE
  /\ signalNotice = None
  /\ signals = TargetIds
  /\ send = [s \in SendIds |-> NoSend]
  /\ nextSend = 0
  /\ closed = [s \in SendIds |-> "none"]
  /\ serverConversations = <<>>
  /\ AnimIdle
  /\ AnimHistoryIdle
  /\ DecodeIdle
  /\ LifeIdle
  /\ ListIdle
  /\ FeedIdle

\* setDeleteConfirmId(signalId): the confirmation opens
handleDeleteClick(id) ==
  /\ TableRendered
  /\ deleteConfirmId = None
  /\ PositionsOf(tableSignals, id) # {}
  /\ deleteConfirmId' = id
  /\ UNCHANGED <<authority, authorityConversations, tableSignals, isLoading, tableError,
                 deleteSignalConfirmId, ops,
                 decodeVars, animVars, animHistory, sessionVars, lifeVars, listVars, feedVars>>

handleCancelDelete ==
  /\ TableRendered
  /\ deleteConfirmId # None
  /\ deleteConfirmId' = None
  /\ UNCHANGED <<authority, authorityConversations, tableSignals, isLoading, tableError,
                 deleteSignalConfirmId, ops,
                 decodeVars, animVars, animHistory, sessionVars, lifeVars, listVars, feedVars>>

\* handleConfirmDelete up to its first await: it looks the target up in the
\* local list and sends DELETE /signals/{id}. The confirmation stays open
\* while the request is outstanding.
handleConfirmDelete(o) ==
  /\ TableRendered
  /\ deleteConfirmId # None
  /\ FreshOp(o)
  /\ LET found == PositionsOf(tableSignals, deleteConfirmId)
         conv == IF found = {} THEN None
                 ELSE tableSignals[CHOOSE i \in found : TRUE].conversation_id
     IN ops' = [ops EXCEPT ![o] = [NoOp EXCEPT !.kind = "delete",
                                               !.id = deleteConfirmId,
                                               !.pc = "deleting",
                                               !.conversation_id = conv]]
  /\ UNCHANGED <<authority, authorityConversations, tableSignals, isLoading, tableError,
                 deleteConfirmId, deleteSignalConfirmId,
                 decodeVars, animVars, animHistory, sessionVars, lifeVars, listVars, feedVars>>

\* the authority serves DELETE /signals/{id}
AuthorityServesDelete(o) ==
  /\ ops[o].pc = "deleting"
  /\ IF ops[o].id \in DOMAIN authority
     THEN /\ authority' = AuthorityDelete(authority, ops[o].id)
          /\ ops' = [ops EXCEPT ![o].pc = "deleteAnswered", ![o].outcome = "accepted"]
     ELSE /\ authority' = authority
          /\ ops' = [ops EXCEPT ![o].pc = "deleteAnswered", ![o].outcome = "refused"]
  /\ UNCHANGED <<authorityConversations, tableSignals, isLoading, tableError,
                 deleteConfirmId, deleteSignalConfirmId,
                 decodeVars, animVars, animHistory, sessionVars, lifeVars, listVars, feedVars>>

\* DELETE /signals/{id} does not reach the authority
DeleteTransportError(o) ==
  /\ ops[o].pc = "deleting"
  /\ ops' = [ops EXCEPT ![o].pc = "deleteAnswered", ![o].outcome = "lost"]
  /\ UNCHANGED <<authority, authorityConversations, tableSignals, isLoading, tableError,
                 deleteConfirmId, deleteSignalConfirmId,
                 decodeVars, animVars, animHistory, sessionVars, lifeVars, listVars, feedVars>>

\* the end of the try block of handleConfirmDelete, with the id the call
\* was made for
RemoveAndClose(o) ==
  /\ tableSignals' = WithoutId(tableSignals, ops[o].id)
  /\ deleteConfirmId' = None
  /\ tableError' = tableError

\* the primary delete has succeeded: the cascade is sent if the target has a
\* conversation, else the target is removed from the list
DeleteOk(o) ==
  /\ ops[o].kind = "delete"
  /\ ops[o].pc = "deleteAnswered"
  /\ ops[o].outcome = "accepted"
  /\ IF ops[o].conversation_id # None
     THEN /\ ops' = [ops EXCEPT ![o].pc = "cascading"]
          /\ UNCHANGED <<tableSignals, deleteConfirmId, tableError>>
     ELSE /\ ops' = [ops EXCEPT ![o].pc = "done"]
          /\ RemoveAndClose(o)
  /\ UNCHANGED <<authority, authorityConversations, isLoading, deleteSignalConfirmId,
                 decodeVars, animVars, animHistory, sessionVars, lifeVars, listVars, feedVars>>

\* a failed delete that drops the target from the list all the same
DeleteFailRemoves(o) ==
  /\ ops[o].kind = "delete"
  /\ ops[o].pc = "deleteAnswered"
  /\ ops[o].outcome # "accepted"
  /\ ops' = [ops EXCEPT ![o].pc = "done"]
  /\ tableError' = ErrDeleteSignal
  /\ deleteConfirmId' = None
  /\ tableSignals' = WithoutId(tableSignals, ops[o].id)
  /\ UNCHANGED <<authority, authorityConversations, isLoading,
                 deleteSignalConfirmId,
                 decodeVars, animVars, animHistory, sessionVars, lifeVars, listVars, feedVars>>

\* the primary delete has failed: the outer catch
DeleteFail(o) ==
  /\ ops[o].kind = "delete"
  /\ ops[o].pc = "deleteAnswered"
  /\ ops[o].outcome # "accepted"
  /\ ops' = [ops EXCEPT ![o].pc = "done"]
  /\ tableError' = ErrDeleteSignal
  /\ deleteConfirmId' = None
  /\ UNCHANGED <<authority, authorityConversations, tableSignals, isLoading,
                 deleteSignalConfirmId,
                 decodeVars, animVars, animHistory, sessionVars, lifeVars, listVars, feedVars>>

\* the authority serves DELETE /conversations/{id}
AuthorityServesCascade(o) ==
  /\ ops[o].pc = "cascading"
  /\ IF ops[o].conversation_id \in authorityConversations
     THEN /\ authorityConversations' = authorityConversations \ {ops[o].conversation_id}
          /\ ops' = [ops EXCEPT ![o].pc = "cascadeAnswered", ![o].cascade = "accepted"]
     ELSE /\ authorityConversations' = authorityConversations
          /\ ops' = [ops EXCEPT ![o].pc = "cascadeAnswered", ![o].cascade = "refused"]
  /\ UNCHANGED <<authority, tableSignals, isLoading, tableError,
                 deleteConfirmId, deleteSignalConfirmId,
                 decodeVars, animVars, animHistory, sessionVars, lifeVars, listVars, feedVars>>

\* DELETE /conversations/{id} does not reach the authority
CascadeTransportError(o) ==
  /\ ops[o].pc = "cascading"
  /\ ops' = [ops EXCEPT ![o].pc = "cascadeAnswered", ![o].cascade = "lost"]
  /\ UNCHANGED <<authority, authorityConversations, tableSignals, isLoading, tableError,
                 deleteConfirmId, deleteSignalConfirmId,
                 decodeVars, animVars, animHistory, sessionVars, lifeVars, listVars, feedVars>>

CascadeOk(o) ==
  /\ ops[o].pc = "cascadeAnswered"
  /\ ops[o].cascade = "accepted"
  /\ ops' = [ops EXCEPT ![o].pc = "done"]
  /\ RemoveAndClose(o)
  /\ UNCHANGED <<authority, authorityConversations, isLoading, deleteSignalConfirmId,
                 decodeVars, animVars, animHistory, sessionVars, lifeVars, listVars, feedVars>>

\* a failed cascade taken as a failure of the deletion
CascadeFailSurfaces(o) ==
  /\ ops[o].pc = "cascadeAnswered"
  /\ ops[o].cascade # "accepted"
  /\ ops' = [ops EXCEPT ![o].pc = "done"]
  /\ tableError' = ErrDeleteSignal
  /\ deleteConfirmId' = None
  /\ UNCHANGED <<authority, authorityConversations, tableSignals, isLoading,
                 deleteSignalConfirmId,
                 decodeVars, animVars, animHistory, sessionVars, lifeVars, listVars, feedVars>>

\* the cascade has failed: the inner catch logs and the try block goes on
CascadeFail(o) ==
  /\ ops[o].pc = "cascadeAnswered"
  /\ ops[o].cascade # "accepted"
  /\ ops' = [ops EXCEPT ![o].pc = "done"]
  /\ RemoveAndClose(o)
  /\ UNCHANGED <<authority, authorityConversations, isLoading, deleteSignalConfirmId,
                 decodeVars, animVars, animHistory, sessionVars, lifeVars, listVars, feedVars>>

\* StrategyChat sidebar: setDeleteSignalConfirmId(signalId)
handleDeleteSignalClick(id) ==
  /\ deleteSignalConfirmId = None
  /\ \E i \in 1..Len(signals) : signals[i] = id
  /\ deleteSignalConfirmId' = id
  /\ UNCHANGED <<authority, authorityConversations, tableSignals, isLoading, tableError,
                 deleteConfirmId, ops,
                 decodeVars, animVars, animHistory, sessionVars, lifeVars, listVars, feedVars>>

handleCancelSignalDelete ==
  /\ deleteSignalConfirmId # None
  /\ deleteSignalConfirmId' = None
  /\ UNCHANGED <<authority, authorityConversations, tableSignals, isLoading, tableError,
                 deleteConfirmId, ops,
                 decodeVars, animVars, animHistory, sessionVars, lifeVars, listVars, feedVars>>

\* handleConfirmSignalDelete up to its await: DELETE /signals/{id}
handleConfirmSignalDelete(o) ==
  /\ deleteSignalConfirmId # None
  /\ FreshOp(o)
  /\ ops' = [ops EXCEPT ![o] = [NoOp EXCEPT !.kind = "sidebarDelete",
                                            !.id = deleteSignalConfirmId,
                                            !.pc = "deleting"]]
  /\ UNCHANGED <<authority, authorityConversations, tableSignals, isLoading, tableError,
                 deleteConfirmId, deleteSignalConfirmId,
                 decodeVars, animVars, animHistory, sessionVars, lifeVars, listVars, feedVars>>

\* the delete has succeeded: the target leaves the sidebar's list and the
\* confirmation closes
SidebarDeleteOk(o) ==
  /\ ops[o].kind = "sidebarDelete"
  /\ ops[o].pc = "deleteAnswered"
  /\ ops[o].outcome = "accepted"
  /\ ops' = [ops EXCEPT ![o].pc = "done"]
  /\ LET keep(id) == id # ops[o].id IN signals' = SelectSeq(signals, keep)
  /\ deleteSignalConfirmId' = None
  /\ UNCHANGED <<authority, authorityConversations, tableSignals, isLoading, tableError,
                 deleteConfirmId, messages, streamControllers, selectedConversationId,
                 isSending, error, toolEvents, isProcessingTools, signalNotice, send,
                 nextSend, closed, serverConversations,
                 decodeVars, animHistory, lifeVars, listVars, feedVars>>

SidebarDeleteFail(o) ==
  /\ ops[o].kind = "sidebarDelete"
  /\ ops[o].pc = "deleteAnswered"
  /\ ops[o].outcome # "accepted"
  /\ ops' = [ops EXCEPT ![o].pc = "done"]
  /\ error' = ErrDeleteSignal
  /\ deleteSignalConfirmId' = None
  /\ UNCHANGED <<authority, authorityConversations, tableSignals, isLoading, tableError,
                 deleteConfirmId, messages, streamControllers, selectedConversationId,
                 isSending, sideVars, send, nextSend, closed, serverConversations,
                 decodeVars, animHistory, lifeVars, listVars, feedVars>>

DeleteNext ==
  \/ \E id \in {"t1", "t2"} : handleDeleteClick(id)
  \/ handleCancelDelete
  \/ \E o \in OpIds : o <= MaxDeletes /\ handleConfirmDelete(o)
  \/ \E o \in OpIds : AuthorityServesDelete(o)
  \/ \E o \in OpIds : DeleteTransportError(o)
  \/ \E o \in OpIds : DeleteOk(o)
  \/ \E o \in OpIds : DeleteFail(o)
  \/ \E o \in OpIds : AuthorityServesCascade(o)
  \/ \E o \in OpIds : CascadeTransportError(o)
  \/ \E o \in OpIds : CascadeOk(o)
  \/ \E o \in OpIds : CascadeFail(o)
  \/ \E id \in {"t1", "t2"} : handleDeleteSignalClick(id)
  \/ handleCancelSignalDelete
  \/ \E o \in OpIds : o <= MaxDeletes /\ handleConfirmSignalDelete(o)
  \/ \E o \in OpIds : SidebarDeleteOk(o)
  \/ \E o \in OpIds : SidebarDeleteFail(o)

SpecDelete == DeleteInit /\ [][DeleteNext]_vars

\* ----------------------------------------- properties of the deletions
\* C18: when the primary delete has succeeded and the cascaded delete of the
\* conversation fails, the target still leaves the local list, the
\* confirmation closes and the error slot is not set.
C18_CascadeFailureNotSurfaced ==
  [][\A o \in OpIds :
       (/\ ops[o].kind = "delete"
        /\ ops[o].pc = "cascadeAnswered"
        /\ ops[o].cascade # "accepted"
        /\ ops'[o].pc = "done") =>
         /\ PositionsOf(tableSignals', ops[o].id) = {}
         /\ deleteConfirmId' = None
         /\ tableError' = tableError]_vars

\* t1 has been deleted, the delete of its conversation has failed and the
\* handler has returned: t1 is off the list, nothing is shown as an error,
\* and the authority still has the conversation
C18_Witness ==
  /\ ops[1].kind = "delete" /\ ops[1].id = "t1" /\ ops[1].pc = "done"
  /\ ops[1].outcome = "accepted"
  /\ ops[1].cascade = "lost"
  /\ "t1" \notin DOMAIN authority
  /\ "conv1" \in authorityConversations
  /\ PositionsOf(tableSignals, "t1") = {}
  /\ deleteConfirmId = None
  /\ tableError = None

\* C19: every deletion of a target that has a conversation, once the
\* authority has performed it and the handler has returned, has sent a
\* delete request for that conversation, in the table and in the sidebar.
C19_EveryDeletionCascades ==
  [][\A o \in OpIds :
       (/\ ops[o].kind \in {"delete", "sidebarDelete"}
        /\ ops[o].outcome = "accepted"
        /\ ConversationOf[ops[o].id] # None
        /\ ops[o].pc # "done"
        /\ ops'[o].pc = "done") =>
         ops'[o].cascade # "none"]_vars

\* ------------------------------------------- properties of the table
\* C13: the authority takes an active target to paused on pause, a paused
\* one to active on resume, an active or paused one to stopped on stop; and
\* when the re-fetch that follows the accepted command arrives, the local
\* list shows the target with its new status.
C13_TransitionsShowAfterRefetch ==
  /\ [][\A o \in OpIds \ {0} :
          (ops[o].pc = "posted" /\ ops'[o].outcome = "accepted") =>
            /\ ops[o].kind = "pause" =>
                 authority[ops[o].id].status = "active"
                 /\ authority'[ops[o].id].status = "paused"
            /\ ops[o].kind = "resume" =>
                 authority[ops[o].id].status = "paused"
                 /\ authority'[ops[o].id].status = "active"
            /\ ops[o].kind = "stop" =>
                 authority[ops[o].id].status \in {"active", "paused"}
                 /\ authority'[ops[o].id].status = "stopped"]_vars
  /\ [][\A o \in OpIds \ {0} :
          (ops[o].pc = "fetched" /\ ops'[o].pc = "done" /\ tableError' = tableError) =>
            /\ tableSignals' = AuthorityList(authority)
            /\ StatusIn(tableSignals', ops[o].id) = Result[ops[o].kind]]_vars

\* pause, then resume, then stop of t1, each one re-fetched: the list showed
\* paused, then active, and now shows stopped
C13_Witness ==
  /\ ops[1] = [NoOp EXCEPT !.kind = "pause", !.id = "t1", !.pc = "done", !.outcome = "accepted"]
  /\ ops[2] = [NoOp EXCEPT !.kind = "resume", !.id = "t1", !.pc = "done", !.outcome = "accepted"]
  /\ ops[3] = [NoOp EXCEPT !.kind = "stop", !.id = "t1", !.pc = "done", !.outcome = "accepted"]
  /\ StatusIn(tableSignals, "t1") = "stopped"

\* C14: a stopped target stays stopped: the authority refuses every pause,
\* resume and stop on it and leaves it as it is, and the refused command
\* changes nothing in the local list.
C14_StoppedIsAbsorbing ==
  /\ [][\A id \in DOMAIN authority :
          authority[id].status = "stopped" =>
            id \in DOMAIN authority' /\ authority'[id].status = "stopped"]_vars
  /\ [][\A o \in OpIds \ {0} :
          (/\ ops[o].pc = "posted"
           /\ ops'[o].pc # "posted"
           /\ authority[ops[o].id].status = "stopped") =>
            ops'[o].outcome \in {"refused", "lost"} /\ authority' = authority]_vars
  /\ [][\A o \in OpIds \ {0} :
          (ops[o].pc = "answered" /\ ops[o].outcome = "refused" /\ ops'[o].pc = "done") =>
            tableSignals' = tableSignals]_vars

\* stop of t1, and a pause of t1 clicked before the list was re-fetched: the
\* authority has refused the pause and the handler has returned
C14_Witness ==
  /\ ops[1].kind = "stop" /\ ops[1].id = "t1" /\ ops[1].outcome = "accepted"
  /\ ops[2].kind = "pause" /\ ops[2].id = "t1" /\ ops[2].outcome = "refused"
  /\ ops[2].pc = "done"
  /\ authority["t1"].status = "stopped"

\* C15: a command never changes the local list by itself: the list changes
\* only in the step in which a response of GET /signals arrives, and then it
\* becomes the list of that response.
C15_NoOptimisticMutation ==
  [][tableSignals' # tableSignals =>
       \E o \in OpIds : ops[o].pc = "fetched" /\ ops'[o].pc = "done"
                        /\ tableSignals' = ops[o].list]_vars

\* the authority has paused t1 and the re-fetch is on its way: the list
\* still shows t1 as active
C15_Witness ==
  /\ ops[1].kind = "pause" /\ ops[1].id = "t1" /\ ops[1].pc = "fetching"
  /\ authority["t1"].status = "paused"
  /\ StatusIn(tableSignals, "t1") = "active"

\* C16: when the response of a command arrives, accepted or not, the handler
\* sends the re-fetch of the list.
C16_RefetchAfterEveryCommand ==
  [][\A o \in OpIds \ {0} :
       (ops[o].pc = "answered" /\ ops'[o].pc # "answered") => ops'[o].pc = "fetching"]_vars

\* C17: when no request is outstanding and no fetch has failed, the local
\* list is the list of the authority.
C17_QuiescentListIsAuthoritative ==
  (OpsInFlight = {} /\ tableError = None) => tableSignals = AuthorityList(authority)

\* ------------------------------------------ lines that are dropped (C11)
\* the type tags processLine has a branch for
RecognisedTypes == {"content", "signal_created", "tool_event", "done", "error"}

Dropped(line) == ~JSONparse(line).ok \/ JSONparse(line).type \notin RecognisedTypes

\* the concatenation of the deltas of the content lines among lines
RECURSIVE DeltasOf(_)
DeltasOf(lines) ==
  IF lines = <<>> THEN <<>>
  ELSE (IF JSONparse(Head(lines)).ok /\ JSONparse(Head(lines)).type = "content"
        THEN JSONparse(Head(lines)).data ELSE <<>>) \o DeltasOf(Tail(lines))

IsToolEvent(line) == JSONparse(line).ok /\ JSONparse(line).type = "tool_event"

IsSignalCreated(line) == line = <<"{signal_created}">>

\* C11: a line that is no JSON, or whose type tag is not recognised, is
\* dropped: the step that hands processLine only such lines changes no
\* session state, and the valid lines before and after it are all applied,
\* in order: at any moment of the stream the text, the tool events and the
\* created signals are those of the valid lines handed over so far.
C11_BadLinesAreSkipped ==
  /\ [](\A s \in FirstCall :
          send[s].pc \in {"reading", "refetching"} =>
            /\ send[s].assistantText = DeltasOf(send[s].given)
            /\ Len(toolEvents) = Len(SelectSeq(send[s].given, IsToolEvent))
            /\ Len(signals) = Len(SelectSeq(send[s].given, IsSignalCreated)))
  /\ [][\A s \in FirstCall :
          (/\ send[s].pc = "reading"
           /\ send'[s].pc = "reading"
           /\ Len(send'[s].given) > Len(send[s].given)
           /\ \A i \in (Len(send[s].given) + 1)..Len(send'[s].given) :
                 Dropped(send'[s].given[i])) =>
            /\ send'[s].assistantText = send[s].assistantText
            /\ UNCHANGED <<messages, streamControllers, sideVars, error, isSending,
                           selectedConversationId>>]_vars

\* a malformed line between two content lines: both deltas are in the text
C11_Witness ==
  /\ send[1].pc = "reading"
  /\ send[1].given = <<<<"{content}">>, <<"not-json">>, <<"{content}">>>>
  /\ send[1].assistantText = ContentDelta \o ContentDelta

\* ------------------------------------------ the optimistic append of a send

\* the clientIds carried by the messages of a list
ClientIdsOf(msgs) == {msgs[i].clientId : i \in 1..Len(msgs)} \ {None}

\* C25: the step of a call that issues the stream request leaves the local
\* list ending with the user message followed by an empty assistant
\* placeholder whose clientId no message carried before; only such a step
\* adds a clientId to the list, and no two messages of the list ever carry
\* the same clientId.
C25_OptimisticAppendIsFresh ==
  /\ [](\A i, j \in 1..Len(messages) :
          (i # j /\ messages[i].clientId # None) =>
            messages[i].clientId # messages[j].clientId)
  /\ [][\A s \in SendIds :
          (send[s].pc # "opening" /\ send'[s].pc = "opening") =>
            LET base ==
                   IF send[s].pc = "creating" THEN <<>> ELSE messages
            IN /\ messages' = base \o <<Message("user", send'[s].text, None),
                                         Message("assistant", <<>>, createClientId(s))>>
               /\ Trim(send'[s].text) = send'[s].text /\ send'[s].text # <<>>
               /\ createClientId(s) \notin ClientIdsOf(messages)]_vars
  /\ [][ClientIdsOf(messages') \subseteq ClientIdsOf(messages)
          \/ \E s \in SendIds : send[s].pc # "opening" /\ send'[s].pc = "opening"]_vars

\* two calls overlap: the list holds both pairs, each placeholder under
\* its own clientId
C25_Witness ==
  /\ Len(messages) = 4
  /\ messages[2].clientId = "c1"
  /\ messages[4] = Message("assistant", <<>>, "c2")
  /\ messages[3] = Message("user", <<"h", "i">>, None)
  /\ send[2].pc = "opening"

\* ------------------------------------------------ the routing of one stream

\* Calls one after the other, each with a stream of content and tool-event
\* lines of two kinds each.
RouteLines == {"{content}", "{content2}", "{tool_event}", "{tool_event2}"}

\* the two calls of the routing specification
RouteCalls == {1, 2}

RouteNext ==
  \/ \E s \in RouteCalls, input \in Inputs : CallsInFlight = {} /\ SubmitButton(s, input)
  \/ \E s \in RouteCalls : CreateConversationOk(s)
  \/ \E s \in RouteCalls : StreamOpenOk(s)
  \/ \E s \in RouteCalls, line \in RouteLines, terminated \in BOOLEAN :
       send[s].nlines < MaxRouteLines /\ StreamRead(s, line, terminated)
  \/ \E s \in RouteCalls : StreamReadFail(s)
  \/ \E s \in RouteCalls : StreamEnd(s)
  \/ \E s \in RouteCalls : RefetchOk(s)
  \/ \E s \in RouteCalls : TimerTick(createClientId(s))

SpecRoute == Init /\ [][RouteNext]_vars

\* the payloads of the tool_event lines among lines, in order
RECURSIVE ToolPayloadsOf(_)
ToolPayloadsOf(lines) ==
  IF lines = <<>> THEN <<>>
  ELSE (IF IsToolEvent(Head(lines)) THEN <<JSONparse(Head(lines)).data>> ELSE <<>>)
       \o ToolPayloadsOf(Tail(lines))

\* the buffer of clientId's controller, empty when there is none
BufferOf(ctls, clientId) ==
  IF clientId \in DOMAIN ctls THEN ctls[clientId].buffer ELSE <<>>

\* C27: while a stream is read and after it has ended, the tool-event list
\* is the sequence of the tool_event payloads handed over by that stream,
\* in their order (so a new call starts from an empty list), and the text
\* given to append, shown or still buffered, is the concatenation of the
\* content deltas in the order of their lines; the end of the call leaves
\* the list as the stream left it.
C27_RoutedInArrivalOrder ==
  /\ [](\A s \in RouteCalls :
          send[s].pc \in {"creating", "opening", "reading", "refetching"} =>
            /\ toolEvents = ToolPayloadsOf(send[s].given)
            /\ send[s].assistantText = DeltasOf(send[s].given)
            /\ send[s].pc = "reading" =>
                 ContentOf(messages, createClientId(s))
                   \o BufferOf(streamControllers, createClientId(s))
                 = DeltasOf(send[s].given))
  /\ [][\A s \in RouteCalls :
          (send[s].pc \in {"reading", "refetching"} /\ send'[s].pc = "exited") =>
            toolEvents' = toolEvents]_vars

\* the second call of the session has read its stream: the list holds its
\* two tool events in their order and nothing of the first call's
C27_Witness ==
  /\ send[1].pc = "exited"
  /\ send[2].pc = "refetching"
  /\ send[2].given = <<<<"{tool_event2}">>, <<"{tool_event}">>>>
  /\ toolEvents = <<"{tool_event2}", "{tool_event}">>

\* C29: the step in which the creation of the conversation fails appends
\* no message, issues no stream request (the call has ended), sets the
\* error slot, and leaves isSending false.
C29_CreationFailureLeavesNothing ==
  [][\A s \in SendIds :
       (send[s].pc = "creating" /\ send'[s].pc # "opening" /\ send'[s].pc # "creating") =>
         /\ send'[s].pc = "exited"
         /\ messages' = messages
         /\ streamControllers' = streamControllers
         /\ serverConversations' = serverConversations
         /\ error' = ErrCreate
         /\ ~isSending']_vars

\* ------------------------------------------------ the controller registry

\* the calls that have ended hold no entry in the registry
ExitedHoldNoEntry ==
  \A s \in SendIds :
    send[s].pc = "exited" => createClientId(s) \notin DOMAIN streamControllers

\* C28: once a call has ended the registry holds no entry under its
\* clientId, and from the teardown on the registry is empty.
C28_RegistryIsEmptied ==
  /\ ExitedHoldNoEntry
  /\ unmounted => DOMAIN streamControllers = {}

\* ---------------------------------------------- the buttons of the table

\* One command at a time, the Stop button answered with yes or with no.
TableConfirmNext ==
  \/ \E o \in OpIds, id \in {"t1", "t2"} : OpsInFlight = {} /\ handlePause(o, id)
  \/ \E o \in OpIds, id \in {"t1", "t2"} : OpsInFlight = {} /\ handleResume(o, id)
  \/ \E o \in OpIds, id \in {"t1", "t2"} : OpsInFlight = {} /\ handleStop(o, id)
  \/ \E o \in OpIds, id \in {"t1", "t2"} : OpsInFlight = {} /\ handleStopDeclined(o, id)
  \/ \E o \in OpIds : AuthorityServesPost(o)
  \/ \E o \in OpIds : TransportError(o)
  \/ \E o \in OpIds : PostOk(o)
  \/ \E o \in OpIds : PostFail(o)
  \/ \E o \in OpIds : AuthorityServesFetch(o)
  \/ \E o \in OpIds : FetchOk(o)
  \/ \E o \in OpIds : FetchFail(o)

SpecTableConfirm == TableInit /\ [][TableConfirmNext]_vars

\* the statuses for which the table shows the button of a command
ShownFor ==
  ("pause" :> {"active"}) @@ ("resume" :> {"paused"}) @@ ("stop" :> Statuses \ {"stopped"})

\* C30: a request for a transition is issued only from a row whose local
\* status shows the button of that command (pause: active, resume: paused,
\* stop: not stopped), a stop only when the user did not decline; a
\* declined stop issues no request, then or later, and changes no state of
\* the table or of the authority.
C30_OnlyLegalRequests ==
  /\ [][\A o \in OpIds \ {0} :
          (ops[o].pc = "idle" /\ ops'[o].pc = "posted") =>
            /\ ops'[o].kind \in Commands
            /\ ops'[o].outcome # "declined"
            /\ \E i \in PositionsOf(tableSignals, ops'[o].id) :
                 tableSignals[i].status \in ShownFor[ops'[o].kind]]_vars
  /\ [][\A o \in OpIds \ {0} :
          (ops[o].pc = "idle" /\ ops'[o].outcome = "declined") =>
            /\ ops'[o].pc = "done"
            /\ \A k \in OpIds \ {o} : ops'[k] = ops[k]
            /\ UNCHANGED <<authority, authorityConversations, tableSignals, isLoading,
                           tableError, deleteConfirmId>>]_vars
  /\ [](\A o \in OpIds : ops[o].outcome = "declined" => ops[o].pc = "done")

\* the user declined the stop of a paused target and then resumed it: the
\* first call sent nothing, the second has posted its request
C30_Witness ==
  /\ ops[1].kind = "stop" /\ ops[1].outcome = "declined" /\ ops[1].id = "t1"
  /\ ops[2].kind = "resume" /\ ops[2].pc = "posted" /\ ops[2].id = "t1"
  /\ StatusIn(tableSignals, "t1") = "paused"
  /\ authority["t1"].status = "paused"

\* ------------------------------------------- the events of a watch target

\* a SignalEvent, by its id and its timestamp
Event(n) == [id |-> "e" \o ToString(n), timestamp |-> n]

\* the authority's events, of all targets
EventsHeld(held) == UNION {{held[id][i] : i \in 1..Len(held[id])} : id \in DOMAIN held}

\* The collaborator that keeps the events: it records an event when the
\* monitor of a target fires, and lists the events of a target newest
\* first.
AuthorityRecord(held, id) ==
  [held EXCEPT ![id] = <<Event(Cardinality(EventsHeld(held)) + 1)>> \o @]

AuthorityListEvents(held, id) == held[id]

ErrLoadEvents == "Unable to load signal events."

EventsInit ==
  /\ authorityEvents = ("t1" :> <<Event(1)>>) @@ ("t2" :> <<>>)
  /\ selectedSignalId = None
  /\ detailMounts = 0
  /\ fetchCalls = 0
  /\ events = <<>>
  /\ eventsIsLoading = TRUE
  /\ eventsError = None
  /\ selectedEvent = NoEvent
  /\ eventFetches = [n \in 1..MaxViews |-> NoFetch]
  /\ SessionInit
  /\ AnimIdle
  /\ AnimHistoryIdle
  /\ DecodeIdle
  /\ LifeIdle
  /\ ListIdle
  /\ TableIdle

restOfEvents == <<decodeVars, animVars, animHistory, sessionVars, lifeVars, listVars, tableVars>>

\* the monitor of a target fires
AuthorityRecordsEvent(id) ==
  /\ Cardinality(EventsHeld(authorityEvents)) < MaxEvents
  /\ authorityEvents' = AuthorityRecord(authorityEvents, id)
  /\ UNCHANGED <<selectedSignalId, detailMounts, fetchCalls, events, eventsIsLoading,
                 eventsError, selectedEvent, eventFetches, restOfEvents>>

\* useEffect(() => { fetchEvents() }, [signalId]): the call, up to its await
fetchEvents(id, instance) ==
  /\ fetchCalls < MaxViews
  /\ fetchCalls' = fetchCalls + 1
  /\ eventFetches' = [eventFetches EXCEPT
                        ![fetchCalls + 1] = [signalId |-> id, instance |-> instance,
                                             pc |-> "requested", data |-> <<>>]]

\* a click on a target while no event view is shown (a row of the table,
\* an entry of the sidebar): SignalEventDetail is mounted for that target
\* with its initial state, and its effect runs
OpenSignal(id) ==
  /\ selectedSignalId = None
  /\ selectedSignalId' = id
  /\ detailMounts' = detailMounts + 1
  /\ events' = <<>>
  /\ eventsIsLoading' = TRUE
  /\ eventsError' = None
  /\ selectedEvent' = NoEvent
  /\ fetchEvents(id, detailMounts + 1)
  /\ UNCHANGED <<authorityEvents, restOfEvents>>

\* a click on another target of the sidebar while the event view is shown:
\* the mounted instance gets a new signalId, keeps its state, and its
\* effect runs again
SwitchSignal(id) ==
  /\ selectedSignalId # None
  /\ id # selectedSignalId
  /\ selectedSignalId' = id
  /\ fetchEvents(id, detailMounts)
  /\ UNCHANGED <<authorityEvents, detailMounts, events, eventsIsLoading, eventsError,
                 selectedEvent, restOfEvents>>

\* Back to Signals, or a click on a conversation of the sidebar: the
\* component is unmounted, and its state with it
BackToSignals ==
  /\ selectedSignalId # None
  /\ selectedSignalId' = None
  /\ events' = <<>>
  /\ eventsIsLoading' = TRUE
  /\ eventsError' = None
  /\ selectedEvent' = NoEvent
  /\ UNCHANGED <<authorityEvents, detailMounts, fetchCalls, eventFetches, restOfEvents>>

\* the call was made by the instance that is mounted
Mounted(n) == selectedSignalId # None /\ eventFetches[n].instance = detailMounts

AuthorityServesEvents(n) ==
  /\ eventFetches[n].pc = "requested"
  /\ eventFetches' = [eventFetches EXCEPT
                        ![n].pc = "served",
                        ![n].data = AuthorityListEvents(authorityEvents,
                                                        eventFetches[n].signalId)]
  /\ UNCHANGED <<authorityEvents, selectedSignalId, detailMounts, fetchCalls, events,
                 eventsIsLoading, eventsError, selectedEvent, restOfEvents>>

EventsTransportError(n) ==
  /\ eventFetches[n].pc \in {"requested", "served"}
  /\ eventFetches' = [eventFetches EXCEPT ![n].pc = "failed", ![n].data = <<>>]
  /\ UNCHANGED <<authorityEvents, selectedSignalId, detailMounts, fetchCalls, events,
                 eventsIsLoading, eventsError, selectedEvent, restOfEvents>>

\* the first event is not the one selected
FetchEventsOkSelectsLast(n) ==
  /\ eventFetches[n].pc = "served"
  /\ LET data == eventFetches[n].data IN
       IF Mounted(n)
       THEN /\ events' = data
            /\ selectedEvent' = IF Len(data) > 0 THEN data[Len(data)] ELSE selectedEvent
            /\ eventsIsLoading' = FALSE
       ELSE UNCHANGED <<events, selectedEvent, eventsIsLoading>>
  /\ eventFetches' = [eventFetches EXCEPT ![n].pc = "done"]
  /\ UNCHANGED <<authorityEvents, selectedSignalId, detailMounts, fetchCalls, eventsError,
                 restOfEvents>>

\* the response of GET /signals/{id}/events arrives: setEvents(data),
\* setSelectedEvent(data[0]) when there is one, setIsLoading(false). The
\* setters of an instance that is no longer mounted change nothing.
FetchEventsOk(n) ==
  /\ eventFetches[n].pc = "served"
  /\ LET data == eventFetches[n].data IN
       IF Mounted(n)
       THEN /\ events' = data
            /\ selectedEvent' = IF Len(data) > 0 THEN data[1] ELSE selectedEvent
            /\ eventsIsLoading' = FALSE
       ELSE UNCHANGED <<events, selectedEvent, eventsIsLoading>>
  /\ eventFetches' = [eventFetches EXCEPT ![n].pc = "done"]
  /\ UNCHANGED <<authorityEvents, selectedSignalId, detailMounts, fetchCalls, eventsError,
                 restOfEvents>>

\* the request fails: setError, setIsLoading(false)
FetchEventsFail(n) ==
  /\ eventFetches[n].pc = "failed"
  /\ IF Mounted(n)
     THEN eventsError' = ErrLoadEvents /\ eventsIsLoading' = FALSE
     ELSE UNCHANGED <<eventsError, eventsIsLoading>>
  /\ eventFetches' = [eventFetches EXCEPT ![n].pc = "done"]
  /\ UNCHANGED <<authorityEvents, selectedSignalId, detailMounts, fetchCalls, events,
                 selectedEvent, restOfEvents>>

\* a click on an event of the list: setSelectedEvent(event)
handleEventClick(i) ==
  /\ selectedSignalId # None
  /\ ~eventsIsLoading /\ eventsError = None
  /\ i \in 1..Len(events)
  /\ selectedEvent' = events[i]
  /\ UNCHANGED <<authorityEvents, selectedSignalId, detailMounts, fetchCalls, events,
                 eventsIsLoading, eventsError, eventFetches, restOfEvents>>

EventsNext ==
  \/ \E id \in {"t1", "t2"} : AuthorityRecordsEvent(id)
  \/ \E id \in {"t1", "t2"} : OpenSignal(id)
  \/ \E id \in {"t1", "t2"} : SwitchSignal(id)
  \/ BackToSignals
  \/ \E n \in 1..MaxViews : AuthorityServesEvents(n)
  \/ \E n \in 1..MaxViews : EventsTransportError(n)
  \/ \E n \in 1..MaxViews : FetchEventsOk(n)
  \/ \E n \in 1..MaxViews : FetchEventsFail(n)
  \/ \E i \in 1..MaxEvents : handleEventClick(i)

SpecEvents == EventsInit /\ [][EventsNext]_vars

\* the events of a list that none of the list is newer than
NewestOf(list) ==
  {list[i] : i \in {i \in 1..Len(list) :
                     \A j \in 1..Len(list) : list[j].timestamp <= list[i].timestamp}}

\* C24: when the response of the mounted view lists at least one event,
\* the event selected in that step is the newest of the list, the one
\* with the greatest timestamp, and the list shown is the list returned.
C24_NewestIsAutoSelected ==
  [][\A n \in 1..MaxViews :
       (/\ eventFetches[n].pc = "served" /\ eventFetches'[n].pc = "done"
        /\ Mounted(n)
        /\ eventFetches[n].data # <<>>) =>
         /\ events' = eventFetches[n].data
         /\ selectedEvent' \in NewestOf(eventFetches[n].data)
         /\ \A i \in 1..Len(events') :
              events'[i].id # selectedEvent'.id =>
                events'[i].timestamp < selectedEvent'.timestamp]_vars

\* the view of t1 was opened after the monitor had fired twice more: of
\* the three events listed the newest is the one selected
C24_Witness ==
  /\ selectedSignalId = "t1"
  /\ ~eventsIsLoading
  /\ Len(events) = 3
  /\ selectedEvent = Event(3)
  /\ events[3] = Event(1)
  /\ eventFetches[1].pc = "done"
  /\ fetchCalls = 1

\* ------------------------------------------------ requests and failures

\* Either the chat, with calls one after the other, or the table of watch
\* targets, with commands and deletions one after the other; every request
\* may fail.
RequestsInit == Init \/ TableInit

ChatPage == ops = <<>>

TablePage == ops # <<>>

RequestsNext ==
  \/ \E s \in SendIds, input \in Inputs :
       ChatPage /\ CallsInFlight = {} /\ SubmitButton(s, input)
  \/ \E s \in SendIds : ChatPage /\ CreateConversationOk(s)
  \/ \E s \in SendIds : ChatPage /\ CreateConversationFail(s)
  \/ \E s \in SendIds : ChatPage /\ StreamOpenFail(s)
  \/ \E s \in SendIds : ChatPage /\ StreamOpenOk(s)
  \/ \E s \in SendIds, line \in SessionLines :
       ChatPage /\ send[s].nlines < MaxSessionLines /\ StreamRead(s, line, TRUE)
  \/ \E s \in SendIds : ChatPage /\ StreamReadFail(s)
  \/ \E s \in SendIds : ChatPage /\ StreamEnd(s)
  \/ \E s \in SendIds : ChatPage /\ RefetchOk(s)
  \/ \E s \in SendIds : ChatPage /\ RefetchFail(s)
  \/ \E s \in SendIds : ChatPage /\ TimerTick(createClientId(s))
  \/ \E o \in OpIds, id \in {"t1", "t2"} :
       TablePage /\ OpsInFlight = {} /\ o <= MaxRequests /\ handlePause(o, id)
  \/ \E o \in OpIds, id \in {"t1", "t2"} :
       TablePage /\ OpsInFlight = {} /\ o <= MaxRequests /\ handleResume(o, id)
  \/ \E o \in OpIds, id \in {"t1", "t2"} :
       TablePage /\ OpsInFlight = {} /\ o <= MaxRequests /\ handleStop(o, id)
  \/ \E o \in OpIds : TablePage /\ AuthorityServesPost(o)
  \/ \E o \in OpIds : TablePage /\ TransportError(o)
  \/ \E o \in OpIds : TablePage /\ PostOk(o)
  \/ \E o \in OpIds : TablePage /\ PostFail(o)
  \/ \E o \in OpIds : TablePage /\ AuthorityServesFetch(o)
  \/ \E o \in OpIds : TablePage /\ FetchOk(o)
  \/ \E o \in OpIds : TablePage /\ FetchFail(o)
  \/ \E id \in {"t1", "t2"} : TablePage /\ OpsInFlight = {} /\ handleDeleteClick(id)
  \/ TablePage /\ handleCancelDelete
  \/ \E o \in OpIds :
       TablePage /\ OpsInFlight = {} /\ o <= MaxRequests /\ handleConfirmDelete(o)
  \/ \E o \in OpIds : TablePage /\ AuthorityServesDelete(o)
  \/ \E o \in OpIds : TablePage /\ DeleteTransportError(o)
  \/ \E o \in OpIds : TablePage /\ DeleteOk(o)
  \/ \E o \in OpIds : TablePage /\ DeleteFail(o)
  \/ \E o \in OpIds : TablePage /\ AuthorityServesCascade(o)
  \/ \E o \in OpIds : TablePage /\ CascadeTransportError(o)
  \/ \E o \in OpIds : TablePage /\ CascadeOk(o)
  \/ \E o \in OpIds : TablePage /\ CascadeFail(o)

SpecRequests == RequestsInit /\ [][RequestsNext]_vars

\* how far a call of handleSendMessage has come
SendRank ==
  ("idle" :> 0) @@ ("creating" :> 1) @@ ("opening" :> 2) @@ ("reading" :> 3) @@
  ("refetching" :> 4) @@ ("exited" :> 5)

\* how far a handler call of the table has come
OpRank ==
  ("idle" :> 0) @@ ("posted" :> 1) @@ ("answered" :> 2) @@ ("fetching" :> 3) @@
  ("fetched" :> 4) @@ ("deleting" :> 1) @@ ("deleteAnswered" :> 2) @@
  ("cascading" :> 3) @@ ("cascadeAnswered" :> 4) @@ ("done" :> 5)

\* the positions of a call in which a request of it is outstanding
SendRequesting == {"creating", "opening", "reading", "refetching"}

\* the calls that the step moves
SendsMoved == {s \in SendIds : send'[s].pc # send[s].pc}

OpsMoved == IF ops = <<>> THEN {} ELSE {o \in OpIds : ops'[o].pc # ops[o].pc}

\* the step is the failure of a request of the call
SendFails(s) ==
  send[s].pc \in SendRequesting /\ send'[s].pc = "exited" /\ error' # None

OpFails(o) ==
  \/ /\ ops[o].pc \in {"answered", "deleteAnswered"}
     /\ ops[o].outcome # "accepted"
     /\ ops'[o].pc # ops[o].pc
  \/ /\ ops[o].pc = "cascadeAnswered" /\ ops[o].cascade # "accepted"
     /\ ops'[o].pc # ops[o].pc
  \/ ops[o].pc \in {"fetching", "fetched"} /\ ops'[o].pc = "done" /\ ops'[o].list = <<>>
     /\ tableError' = ErrLoadSignals

\* C26: no request is retried. The step in which a request of a call fails
\* ends that call and issues no request; a call never goes back to a
\* request it has made, and a call that has ended stays ended; so after a
\* failure the next request is the first one of a new call, which only an
\* action of the user starts.
C26_NoAutomaticRetry ==
  /\ [][\A s \in SendIds :
          /\ SendRank[send'[s].pc] >= SendRank[send[s].pc]
          /\ SendFails(s) =>
               /\ send'[s].pc = "exited"
               /\ SendsMoved = {s}]_vars
  /\ [][ops # <<>> =>
          \A o \in OpIds :
            /\ OpRank[ops'[o].pc] >= OpRank[ops[o].pc]
            /\ OpFails(o) =>
                 /\ ops'[o].pc = "done"
                 /\ OpsMoved = {o}]_vars
  /\ [][Cardinality(SendsMoved) + Cardinality(OpsMoved) <= 1]_vars

\* a pause was lost on its way and the call has ended: nothing is
\* outstanding, the target is still active, and the user may click again
C26_Witness ==
  /\ ops # <<>>
  /\ ops[1].kind = "pause" /\ ops[1].outcome = "lost" /\ ops[1].pc = "done"
  /\ OpsInFlight = {}
  /\ ops[2].pc = "idle"
  /\ authority[ops[1].id].status = "active"

\* --------------------------------------- the playback between append and finalize

\* p is an initial part of q
IsPrefix(p, q) == Len(p) <= Len(q) /\ SubSeq(q, 1, Len(p)) = p

\* C32: from the first append for an id on, the content of its placeholder
\* followed by what its buffer still holds is the concatenation of the
\* deltas appended so far; the content is an initial part of that text, and
\* a step changes it only by adding at its end.
C32_ContentPlusBufferIsAppended ==
  /\ [](\A clientId \in AnimIds :
          /\ ContentOf(messages, clientId) \o BufferOf(streamControllers, clientId)
               = appended[clientId]
          /\ IsPrefix(ContentOf(messages, clientId), appended[clientId]))
  /\ [][\A clientId \in AnimIds :
          IsPrefix(ContentOf(messages, clientId), ContentOf(messages', clientId))]_vars

\* 'Hel' and 'lo' were appended to c2, a callback has shown 'Hello', and
\* 'Hel' was appended again: five characters are shown, three wait in the
\* buffer, no finalize yet
C32_Witness ==
  /\ ~finalized["c2"]
  /\ appendCalls["c2"] = 3
  /\ ticks["c2"] = 1
  /\ ContentOf(messages, "c2") = <<"H", "e", "l", "l", "o">>
  /\ BufferOf(streamControllers, "c2") = <<"H", "e", "l">>
  /\ TimerEnabled("c2")

\* Appends and interval callbacks only: finalize is never called. An
\* interval that is set goes on firing.
AnimDrainNext ==
  \/ \E clientId \in AnimIds, chunk \in Deltas : AnimAppend(clientId, chunk)
  \/ \E clientId \in AnimIds : AnimTick(clientId)

SpecAnimDrain ==
  /\ AnimInit
  /\ [][AnimDrainNext]_vars
  /\ \A clientId \in AnimIds : WF_vars(AnimTick(clientId))

\* the ticker of clientId has stopped on an empty buffer with all the
\* appended text shown, and finalize was not called
Drained(clientId) ==
  /\ ~TimerEnabled(clientId)
  /\ BufferOf(streamControllers, clientId) = <<>>
  /\ ContentOf(messages, clientId) = appended[clientId]
  /\ ~finalized[clientId]

\* C33: without finalize, once the appends for an id have stopped, its
\* interval callbacks empty the buffer and stop the ticker with all the
\* appended text shown: from some moment on the id stays in that state.
C33_TickerDrainsAndStops ==
  \A clientId \in AnimIds : <>[]Drained(clientId)

\* three appends to c2 and no finalize: three callbacks have shown the
\* eight characters and the ticker has stopped
C33_Witness ==
  /\ appendCalls["c2"] = 3
  /\ appended["c2"] = <<"H", "e", "l", "H", "e", "l", "l", "o">>
  /\ ticks["c2"] = 3
  /\ Drained("c2")

\* ------------------------------------------------ the stream without a reply

\* call s takes the step from the end of its stream to the re-fetch
StreamCompletes(s) == send[s].pc = "reading" /\ send'[s].pc = "refetching"

\* the placeholder of call s shows the fixed notice of an empty reply
ShowsNoResponse(msgs, s) ==
  /\ HasClientId(msgs, createClientId(s))
  /\ ContentOf(msgs, createClientId(s)) = NoResponseNotice

\* C36: when the stream of a call completes and has delivered no non-empty
\* content delta, the step that finalizes the animation and issues the
\* re-fetch leaves the fixed notice as the content of the placeholder, with
\* no controller left for it; when a non-empty delta was delivered, the
\* placeholder never shows that notice.
C36_NoticeIffNothingDelivered ==
  /\ [][\A s \in FirstCall :
          (StreamCompletes(s) /\ DeltasOf(send'[s].given) = <<>>)
            => /\ ShowsNoResponse(messages', s)
               /\ createClientId(s) \notin DOMAIN streamControllers']_vars
  /\ [](\A s \in FirstCall :
          DeltasOf(send[s].given) # <<>> => ~ShowsNoResponse(messages, s))

\* the stream delivered a tool event and a done event and no content: the
\* call waits for the re-fetch and the placeholder shows the notice
C36_Witness ==
  /\ send[1].pc = "refetching"
  /\ send[1].given = << <<"{tool_event}">>, <<"{done}">> >>
  /\ ShowsNoResponse(messages, 1)

\* C35: once a call has exited, the tool-processing indicator is off,
\* whichever way its stream ended.
C35_IndicatorOffAfterExit ==
  \A s \in FirstCall : send[s].pc = "exited" => ~isProcessingTools

\* ------------------------------------------ the failed delete of a target

\* the handler of delete o returns from a primary delete that has failed
PrimaryDeleteFails(o) ==
  /\ ops[o].kind = "delete"
  /\ ops[o].pc = "deleteAnswered"
  /\ ops[o].outcome # "accepted"
  /\ ops'[o].pc = "done"

\* C38: when the primary delete of a target fails, the handler returns
\* with the local list as it was, the confirmation closed and the error
\* slot set, and no delete of the conversation is sent, then or later; a
\* delete of the conversation is only ever sent, or answered, for a primary
\* delete that has succeeded.
C38_FailedDeleteSendsNoCascade ==
  /\ [][\A o \in OpIds :
          PrimaryDeleteFails(o) =>
            /\ tableSignals' = tableSignals
            /\ deleteConfirmId' = None
            /\ tableError' = ErrDeleteSignal
            /\ ops'[o].cascade = "none"
            /\ authorityConversations' = authorityConversations]_vars
  /\ [](\A o \in OpIds :
          ops[o].kind = "delete" =>
            /\ (ops[o].pc \in {"cascading", "cascadeAnswered"} \/ ops[o].cascade # "none")
                 => ops[o].outcome = "accepted"
            /\ (ops[o].pc = "done" /\ ops[o].outcome # "accepted")
                 => ops[o].cascade = "none")

\* the delete of t1, which has a conversation, did not reach the authority
\* and the handler has returned: t1 is still listed and still exists, its
\* conversation too, the confirmation is closed and the error is shown
C38_Witness ==
  /\ ops[1].kind = "delete" /\ ops[1].id = "t1" /\ ops[1].pc = "done"
  /\ ops[1].outcome = "lost"
  /\ ops[1].conversation_id = "conv1"
  /\ ops[1].cascade = "none"
  /\ PositionsOf(tableSignals, "t1") # {}
  /\ "conv1" \in authorityConversations
  /\ deleteConfirmId = None
  /\ tableError = ErrDeleteSignal

\* ------------------------------------------------ the event that is selected

\* C37: the selected event is null or one of the events of the list that
\* is loaded, also after the view was given another target, one without
\* events included.
C37_SelectedEventIsListed ==
  selectedEvent = NoEvent \/ \E i \in 1..Len(events) : events[i] = selectedEvent

\* ------------------------------------------- the conversations of the sidebar

MaxConversationOps == 3

ConversationIds == {"conv1", "conv2"}

\* updated_at and strategy_id of the conversations the collaborator keeps
UpdatedAt == ("conv1" :> 1) @@ ("conv2" :> 2)

StrategyOf == ("conv1" :> "s1") @@ ("conv2" :> None)

\* a ConversationResponse, as the sidebar keeps it
Conversation(id) ==
  [id |-> id, updated_at |-> UpdatedAt[id], strategy_id |-> StrategyOf[id]]

ErrDeleteConversation == "Unable to delete conversation. Please try again."

\* [...items].sort((a, b) => b.updated_at - a.updated_at): newest first,
\* equal ones in the order they had
RECURSIVE InsertByUpdated(_, _)
InsertByUpdated(sorted, item) ==
  IF sorted = <<>> THEN <<item>>
  ELSE IF Head(sorted).updated_at >= item.updated_at
       THEN <<Head(sorted)>> \o InsertByUpdated(Tail(sorted), item)
       ELSE <<item>> \o sorted

RECURSIVE sortByUpdated(_)
sortByUpdated(items) ==
  IF items = <<>> THEN <<>>
  ELSE InsertByUpdated(sortByUpdated(SubSeq(items, 1, Len(items) - 1)),
                       items[Len(items)])

\* prev.filter((c) => c.id !== id)
WithoutConversation(list, id) ==
  LET keep(c) == c.id # id IN SelectSeq(list, keep)

\* setConversations((prev) => sortByUpdated([conversation, ...prev.filter(...)]))
updateConversationList(list, conversation) ==
  sortByUpdated(<<conversation>> \o WithoutConversation(list, conversation.id))

ConversationListed(list, id) == \E i \in 1..Len(list) : list[i].id = id

\* a fetch or a delete of a conversation that has not been made; selected
\* and strategy are what the handler saw when it was called
NoConversationOp ==
  [kind |-> "none", id |-> None, selected |-> None, strategy |-> None,
   pc |-> "idle", outcome |-> "none", spinner |-> FALSE]

\* The chat with its conversations loaded: the list is the collaborator's,
\* newest first, and the first of it is selected with its messages.
ConversationsInit ==
  /\ serverConversations =
       ("conv1" :> <<Message("user", <<"h", "i">>, None),
                     Message("assistant", <<"reply">>, None)>>) @@
       ("conv2" :> <<Message("user", <<"y", "o">>, None)>>)
  /\ conversations = sortByUpdated(<<Conversation("conv1"), Conversation("conv2")>>)
  /\ selectedConversationId = "conv2"
  /\ messages = <<Message("user", <<"y", "o">>, None)>>
  /\ streamControllers = <<>>
  /\ conversationDeleteConfirmId = None
  /\ isLoadingConversation = FALSE
  /\ conversationOps = [o \in 1..MaxConversationOps |-> NoConversationOp]
  /\ isSending = FALSE
  /\ error = None
  /\ toolEvents = <<>>
  /\ isProcessingTools = FALSE
  /\ signalNotice = None
  /\ signals = <<>>
  /\ send = [s \in SendIds |-> NoSend]
  /\ nextSend = 0
  /\ closed = [s \in SendIds |-> "none"]
  /\ AnimHistoryIdle
  /\ DecodeIdle
  /\ LifeIdle
  /\ TableIdle
  /\ FeedIdle

restOfConversations ==
  <<decodeVars, streamControllers, animHistory, isSending, toolEvents, isProcessingTools,
    signals, send, nextSend, closed, lifeVars, tableVars, feedVars>>

FreshConversationOp(o) ==
  /\ conversationOps[o].pc = "idle"
  /\ \A p \in 1..(o - 1) : conversationOps[p].pc # "idle"

\* a click on a conversation of the sidebar: the selection changes at once
\* and fetchConversation is called, which runs up to its await
handleSelectConversation(o, id) ==
  /\ conversationDeleteConfirmId = None
  /\ ConversationListed(conversations, id)
  /\ id # selectedConversationId
  /\ FreshConversationOp(o)
  /\ selectedConversationId' = id
  /\ signalNotice' = None
  /\ isLoadingConversation' = TRUE
  /\ error' = None
  /\ conversationOps' = [conversationOps EXCEPT
        ![o] = [NoConversationOp EXCEPT !.kind = "fetch", !.id = id,
                                        !.pc = "requested", !.spinner = TRUE]]
  /\ UNCHANGED <<messages, serverConversations, conversations,
                 conversationDeleteConfirmId, restOfConversations>>

\* the collaborator serves GET /conversations/{id}
ServerServesConversation(o) ==
  /\ conversationOps[o].kind = "fetch"
  /\ conversationOps[o].pc = "requested"
  /\ conversationOps' = [conversationOps EXCEPT
        ![o].pc = "answered",
        ![o].outcome = IF conversationOps[o].id \in DOMAIN serverConversations
                       THEN "accepted" ELSE "refused"]
  /\ UNCHANGED <<messages, selectedConversationId, error, signalNotice,
                 serverConversations, conversations, conversationDeleteConfirmId,
                 isLoadingConversation, restOfConversations>>

\* a request for a conversation does not reach the collaborator
ConversationTransportError(o) ==
  /\ conversationOps[o].pc = "requested"
  /\ conversationOps' = [conversationOps EXCEPT ![o].pc = "answered",
                                                 ![o].outcome = "lost"]
  /\ UNCHANGED <<messages, selectedConversationId, error, signalNotice,
                 serverConversations, conversations, conversationDeleteConfirmId,
                 isLoadingConversation, restOfConversations>>

\* the response arrives: setMessages, updateConversationList, and the
\* spinner goes off. The messages are those the collaborator has when the
\* response arrives.
FetchConversationOk(o) ==
  /\ conversationOps[o].kind = "fetch"
  /\ conversationOps[o].pc = "answered"
  /\ conversationOps[o].outcome = "accepted"
  /\ conversationOps[o].id \in DOMAIN serverConversations
  /\ messages' = serverConversations[conversationOps[o].id]
  /\ conversations' =
       updateConversationList(conversations, Conversation(conversationOps[o].id))
  /\ isLoadingConversation' = FALSE
  /\ conversationOps' = [conversationOps EXCEPT ![o].pc = "done"]
  /\ UNCHANGED <<selectedConversationId, error, signalNotice, serverConversations,
                 conversationDeleteConfirmId, restOfConversations>>

\* the request has failed: the catch and the finally of fetchConversation
FetchConversationFail(o) ==
  /\ conversationOps[o].kind = "fetch"
  /\ conversationOps[o].pc = "answered"
  /\ \/ conversationOps[o].outcome # "accepted"
     \/ conversationOps[o].id \notin DOMAIN serverConversations
  /\ error' = ErrFetch
  /\ isLoadingConversation' = FALSE
  /\ conversationOps' = [conversationOps EXCEPT ![o].pc = "done"]
  /\ UNCHANGED <<messages, selectedConversationId, signalNotice, serverConversations,
                 conversations, conversationDeleteConfirmId, restOfConversations>>

\* the delete button of a conversation: setDeleteConfirmId(conversationId).
\* The confirmation covers the page while it is open.
handleDeleteConversationClick(id) ==
  /\ conversationDeleteConfirmId = None
  /\ ConversationListed(conversations, id)
  /\ conversationDeleteConfirmId' = id
  /\ UNCHANGED <<messages, selectedConversationId, error, signalNotice,
                 serverConversations, conversations, isLoadingConversation,
                 conversationOps, restOfConversations>>

\* Cancel, or a click beside the confirmation
handleCancelConversationDelete ==
  /\ conversationDeleteConfirmId # None
  /\ conversationDeleteConfirmId' = None
  /\ UNCHANGED <<messages, selectedConversationId, error, signalNotice,
                 serverConversations, conversations, isLoadingConversation,
                 conversationOps, restOfConversations>>

\* handleConfirmDelete up to its first await: DELETE /conversations/{id}.
\* The callback keeps the deleteConfirmId, the selectedConversationId and
\* the conversations of the render it was made in.
handleConfirmConversationDelete(o) ==
  /\ conversationDeleteConfirmId # None
  /\ FreshConversationOp(o)
  /\ LET id == conversationDeleteConfirmId
         found == {i \in 1..Len(conversations) : conversations[i].id = id}
     IN conversationOps' = [conversationOps EXCEPT
          ![o] = [NoConversationOp EXCEPT
                    !.kind = "delete", !.id = id,
                    !.selected = selectedConversationId,
                    !.strategy = IF found = {} THEN None
                                 ELSE conversations[CHOOSE i \in found : TRUE].strategy_id,
                    !.pc = "requested"]]
  /\ UNCHANGED <<messages, selectedConversationId, error, signalNotice,
                 serverConversations, conversations, conversationDeleteConfirmId,
                 isLoadingConversation, restOfConversations>>

\* the collaborator serves DELETE /conversations/{id}
ServerServesConversationDelete(o) ==
  /\ conversationOps[o].kind = "delete"
  /\ conversationOps[o].pc = "requested"
  /\ IF conversationOps[o].id \in DOMAIN serverConversations
     THEN /\ serverConversations' =
               [k \in DOMAIN serverConversations \ {conversationOps[o].id}
                  |-> serverConversations[k]]
          /\ conversationOps' = [conversationOps EXCEPT ![o].pc = "answered",
                                                         ![o].outcome = "accepted"]
     ELSE /\ serverConversations' = serverConversations
          /\ conversationOps' = [conversationOps EXCEPT ![o].pc = "answered",
                                                         ![o].outcome = "refused"]
  /\ UNCHANGED <<messages, selectedConversationId, error, signalNotice, conversations,
                 conversationDeleteConfirmId, isLoadingConversation, restOfConversations>>

\* the end of the try block of handleConfirmDelete, with the values the
\* callback has kept
RemoveConversationAndClose(o) ==
  /\ conversations' = WithoutConversation(conversations, conversationOps[o].id)
  /\ IF conversationOps[o].selected = conversationOps[o].id
     THEN selectedConversationId' = None /\ messages' = <<>>
     ELSE UNCHANGED <<selectedConversationId, messages>>
  /\ conversationDeleteConfirmId' = None

\* the delete has succeeded: StrategyChat goes on to delete the strategy
\* of the conversation when it has one, else the conversation leaves the list
ConversationDeleteOk(o) ==
  /\ conversationOps[o].kind = "delete"
  /\ conversationOps[o].pc = "answered"
  /\ conversationOps[o].outcome = "accepted"
  /\ IF conversationOps[o].strategy # None
     THEN /\ conversationOps' = [conversationOps EXCEPT ![o].pc = "strategy"]
          /\ UNCHANGED <<conversations, selectedConversationId, messages,
                         conversationDeleteConfirmId>>
     ELSE /\ conversationOps' = [conversationOps EXCEPT ![o].pc = "done"]
          /\ RemoveConversationAndClose(o)
  /\ UNCHANGED <<error, signalNotice, serverConversations, isLoadingConversation,
                 restOfConversations>>

\* DELETE /strategies/{id} is answered: a failure is logged and the try
\* block goes on
StrategyDeleteAnswered(o) ==
  /\ conversationOps[o].kind = "delete"
  /\ conversationOps[o].pc = "strategy"
  /\ conversationOps' = [conversationOps EXCEPT ![o].pc = "done"]
  /\ RemoveConversationAndClose(o)
  /\ UNCHANGED <<error, signalNotice, serverConversations, isLoadingConversation,
                 restOfConversations>>

\* the delete has failed: the catch of handleConfirmDelete
ConversationDeleteFail(o) ==
  /\ conversationOps[o].kind = "delete"
  /\ conversationOps[o].pc = "answered"
  /\ conversationOps[o].outcome # "accepted"
  /\ conversationOps' = [conversationOps EXCEPT ![o].pc = "done"]
  /\ error' = ErrDeleteConversation
  /\ conversationDeleteConfirmId' = None
  /\ UNCHANGED <<messages, selectedConversationId, signalNotice, serverConversations,
                 conversations, isLoadingConversation, restOfConversations>>

ConversationsNext ==
  \/ \E o \in 1..MaxConversationOps, id \in ConversationIds :
       handleSelectConversation(o, id)
  \/ \E o \in 1..MaxConversationOps : ServerServesConversation(o)
  \/ \E o \in 1..MaxConversationOps : ConversationTransportError(o)
  \/ \E o \in 1..MaxConversationOps : FetchConversationOk(o)
  \/ \E o \in 1..MaxConversationOps : FetchConversationFail(o)
  \/ \E id \in ConversationIds : handleDeleteConversationClick(id)
  \/ handleCancelConversationDelete
  \/ \E o \in 1..MaxConversationOps : handleConfirmConversationDelete(o)
  \/ \E o \in 1..MaxConversationOps : ServerServesConversationDelete(o)
  \/ \E o \in 1..MaxConversationOps : ConversationDeleteOk(o)
  \/ \E o \in 1..MaxConversationOps : StrategyDeleteAnswered(o)
  \/ \E o \in 1..MaxConversationOps : ConversationDeleteFail(o)

SpecConversations == ConversationsInit /\ [][ConversationsNext]_vars

\* the handler of delete o removes the conversation from the list
ConversationDeleteSucceeds(o) ==
  /\ conversationOps[o].kind = "delete"
  /\ conversationOps[o].outcome = "accepted"
  /\ conversationOps[o].pc # "done"
  /\ conversationOps'[o].pc = "done"

\* the handler of delete o returns from a delete that has failed
ConversationDeleteFails(o) ==
  /\ conversationOps[o].kind = "delete"
  /\ conversationOps[o].outcome \notin {"none", "accepted"}
  /\ conversationOps[o].pc # "done"
  /\ conversationOps'[o].pc = "done"

\* C31: the step that ends a successful delete leaves the conversation off
\* the list and, when the conversation is the selected one, the selection
\* null and the messages empty, else selection and messages as they were;
\* the step that ends a failed delete leaves list, selection and messages
\* as they were and sets the error; both close the confirmation.
C31_DeleteFrame ==
  [][\A o \in 1..MaxConversationOps :
       /\ ConversationDeleteSucceeds(o) =>
            /\ ~ConversationListed(conversations', conversationOps[o].id)
            /\ IF selectedConversationId = conversationOps[o].id
               THEN selectedConversationId' = None /\ messages' = <<>>
               ELSE selectedConversationId' = selectedConversationId
                    /\ messages' = messages
            /\ conversationDeleteConfirmId' = None
       /\ ConversationDeleteFails(o) =>
            /\ conversations' = conversations
            /\ selectedConversationId' = selectedConversationId
            /\ messages' = messages
            /\ error' = ErrDeleteConversation
            /\ conversationDeleteConfirmId' = None]_vars

\* --------------------------------------- a send and the selection of the chat

MaxSelects == 2

\* One call of handleSendMessage in the chat with its conversations
\* loaded, and clicks on the conversations of the sidebar at any moment;
\* every response arrives when it arrives.
SelectNext ==
  \/ \E s \in FirstCall, input \in Inputs : SubmitButton(s, input)
  \/ \E s \in FirstCall, input \in Inputs : EnterKey(s, input)
  \/ \E s \in FirstCall : StreamOpenFail(s)
  \/ \E s \in FirstCall : StreamOpenOk(s)
  \/ \E s \in FirstCall, line \in SessionLines :
       send[s].nlines < MaxSessionLines /\ StreamRead(s, line, TRUE)
  \/ \E s \in FirstCall : StreamReadFail(s)
  \/ \E s \in FirstCall : StreamEnd(s)
  \/ \E s \in FirstCall : RefetchOk(s)
  \/ \E s \in FirstCall : RefetchFail(s)
  \/ \E s \in FirstCall : TimerTick(createClientId(s))
  \/ \E o \in 1..MaxSelects, id \in ConversationIds : handleSelectConversation(o, id)
  \/ \E o \in 1..MaxSelects : ServerServesConversation(o)
  \/ \E o \in 1..MaxSelects : ConversationTransportError(o)
  \/ \E o \in 1..MaxSelects : FetchConversationOk(o)
  \/ \E o \in 1..MaxSelects : FetchConversationFail(o)

SpecSelect == ConversationsInit /\ [][SelectNext]_vars

\* a call is in flight
SendInFlight == \E s \in FirstCall : send[s].pc \in InFlight

\* a fetch made by a click on the sidebar has not ended
FetchPending ==
  \E o \in 1..MaxSelects :
    conversationOps[o].kind = "fetch" /\ conversationOps[o].pc # "done"

\* a fetch made by a click on the sidebar has failed
FetchFailed ==
  \E o \in 1..MaxSelects :
    conversationOps[o].kind = "fetch" /\ conversationOps[o].outcome \in {"refused", "lost"}

\* m is the user message or the placeholder of a call in flight in id
OwnedBySend(m, id) ==
  \E s \in FirstCall :
    /\ send[s].pc \in InFlight
    /\ send[s].conversationId = id
    /\ \/ m.clientId = createClientId(s)
       \/ m.role = "user" /\ m.content = send[s].text /\ m.clientId = None

\* the messages shown are those the collaborator has for id, up to the
\* messages of a call in flight in id
Displays(id) ==
  \E k \in 1..Len(messages) :
    /\ IsPrefix(SubSeq(messages, 1, k), serverConversations[id])
    /\ \A i \in (k + 1)..Len(messages) : OwnedBySend(messages[i], id)

\* the response of fetch o, made for a conversation that is not the
\* selected one, is applied
StaleFetchArrives(o) ==
  /\ conversationOps[o].kind = "fetch"
  /\ conversationOps[o].pc = "answered"
  /\ conversationOps[o].outcome = "accepted"
  /\ conversationOps'[o].pc = "done"
  /\ conversationOps[o].id # selectedConversationId

\* the re-fetch of call s, made in a conversation that is not the selected
\* one any more, is answered
LeftRefetchArrives(s) ==
  /\ send[s].pc = "refetching"
  /\ send'[s].pc = "exited"
  /\ send[s].conversationId # selectedConversationId

\* C34: while a call is in flight, no fetch of a conversation is pending
\* and none has failed, the messages shown are those of the selected conversation; the
\* response of a fetch for a conversation that is not the selected one,
\* and the re-fetch of a call whose conversation was left, leave the
\* messages as they are.
C34_MessagesAreOfTheSelected ==
  /\ []((SendInFlight /\ ~FetchPending /\ ~FetchFailed)
          => Displays(selectedConversationId))
  /\ [][\A o \in 1..MaxSelects : StaleFetchArrives(o) => messages' = messages]_vars
  /\ [][\A s \in FirstCall : LeftRefetchArrives(s) => messages' = messages]_vars

====
